---------------------------- MODULE Spec2Model ----------------------------
(***************************************************************************)
(* A model of the macaroni-arch analysis pipeline: the GET route that      *)
(* streams progress frames, analyzeGitRepo / cloneAndAnalyze, the language *)
(* analyzers' import resolution, the aggregator and buildDisplayItems.     *)
(*                                                                         *)
(* Strings that the code inspects character by character (paths, import    *)
(* specifiers) are sequences of one-character strings, so that endsWith,   *)
(* includes, split and join are computed, not assumed.                     *)
(***************************************************************************)
EXTENDS Integers, Sequences, FiniteSets, TLC

(***************************************************************************)
(* Strings                                                                 *)
(***************************************************************************)

Range(s) == { s[i] : i \in 1..Len(s) }

\* s.slice(from - 1, to) in 1-based, inclusive positions
Slice(s, from, to) == IF from > to THEN <<>> ELSE SubSeq(s, from, to)

Drop(s, n) == Slice(s, n + 1, Len(s))

Take(s, n) == Slice(s, 1, IF n < Len(s) THEN n ELSE Len(s))

\* String.prototype.startsWith
StartsWith(s, p) == Len(p) <= Len(s) /\ Take(s, Len(p)) = p

\* String.prototype.endsWith
EndsWith(s, p) == Len(p) <= Len(s) /\ Drop(s, Len(s) - Len(p)) = p

\* String.prototype.includes
Includes(s, p) ==
    \E i \in 0..(Len(s) - Len(p)) : Slice(s, i + 1, i + Len(p)) = p

RECURSIVE Concat(_)
\* the concatenation of a sequence of strings (by halves)
Concat(ss) ==
    IF Len(ss) = 0 THEN <<>>
    ELSE IF Len(ss) = 1 THEN ss[1]
    ELSE Concat(Take(ss, Len(ss) \div 2)) \o Concat(Drop(ss, Len(ss) \div 2))

RECURSIVE SplitOn(_, _)
\* String.prototype.split(ch): the pieces between occurrences of ch
SplitOn(s, ch) ==
    IF \A i \in 1..Len(s) : s[i] # ch
    THEN <<s>>
    ELSE LET k == CHOOSE i \in 1..Len(s) :
                      s[i] = ch /\ \A j \in 1..(i - 1) : s[j] # ch
         IN  <<Take(s, k - 1)>> \o SplitOn(Drop(s, k), ch)

RECURSIVE JoinWith(_, _)
\* Array.prototype.join(sep)
JoinWith(parts, sep) ==
    IF parts = <<>> THEN <<>>
    ELSE IF Len(parts) = 1 THEN parts[1]
    ELSE parts[1] \o sep \o JoinWith(Tail(parts), sep)

RECURSIVE ReplaceAll(_, _, _)
\* String.prototype.replace(/c/g, d) for a one-character pattern
ReplaceAll(s, c, d) ==
    IF s = <<>> THEN <<>>
    ELSE (IF Head(s) = c THEN d ELSE <<Head(s)>>) \o ReplaceAll(Tail(s), c, d)

\* the positions from `from` on of a sequence of booleans that are TRUE,
\* ascending
SelectSeqIdx(flags, from) ==
    SelectSeq([i \in 1..Len(flags) |-> i], LAMBDA i : i >= from /\ flags[i])

\* Array.prototype.includes
SeqIncludes(seq, x) == \E i \in 1..Len(seq) : seq[i] = x

SLASH == <<"/">>
DOT == <<".">>

(***************************************************************************)
(* node:path on POSIX, on segment lists                                    *)
(***************************************************************************)

\* the non-empty pieces of a path between slashes
Segs(p) == SelectSeq(SplitOn(p, "/"), LAMBDA x : x # <<>>)

RECURSIVE NormSegs(_, _)
\* resolve "." and ".." pieces; `acc` is what is kept so far. A ".." that
\* cannot be resolved against a kept piece stays (relative paths).
NormSegs(rest, acc) ==
    IF rest = <<>> THEN acc
    ELSE LET x == Head(rest) IN
         IF x = DOT THEN NormSegs(Tail(rest), acc)
         ELSE IF x = <<".", ".">>
              THEN IF acc # <<>> /\ acc[Len(acc)] # <<".", ".">>
                   THEN NormSegs(Tail(rest), Take(acc, Len(acc) - 1))
                   ELSE NormSegs(Tail(rest), Append(acc, x))
              ELSE NormSegs(Tail(rest), Append(acc, x))

\* path.normalize of a relative path followed by .replace(/^\/+/, ''):
\* the result for a path that normalizes to nothing is "."
NormalizeRel(p) ==
    LET n == NormSegs(Segs(p), <<>>)
    IN  IF n = <<>> THEN DOT ELSE JoinWith(n, SLASH)

\* path.join(a, b) for relative a
PathJoin(a, b) == NormalizeRel(a \o SLASH \o b)

\* path.dirname of a relative path without a trailing slash
DirName(p) ==
    LET parts == SplitOn(p, "/")
    IN  IF Len(parts) = 1 THEN DOT
        ELSE JoinWith(Take(parts, Len(parts) - 1), SLASH)

\* path.basename(p)
BaseName(p) == LET parts == SplitOn(p, "/") IN parts[Len(parts)]

\* path.basename(p, ext)
BaseNameExt(p, ext) ==
    LET b == BaseName(p)
    IN  IF b # ext /\ EndsWith(b, ext) THEN Take(b, Len(b) - Len(ext)) ELSE b


(***************************************************************************)
(* String.prototype.localeCompare, for the characters paths are made of:   *)
(* punctuation sorts before digits, digits before letters, letters compare *)
(* without regard to case first, and on a tie lower case sorts first.      *)
(***************************************************************************)

Collation ==
    << "_", "-", ".", "0", "1", "2", "3", "4", "5", "6", "7", "8", "9",
       "a", "b", "c", "d", "e", "f", "g", "h", "i", "j", "k", "l", "m", "n",
       "o", "p", "q", "r", "s", "t", "u", "v", "w", "x", "y", "z" >>

UpperCase ==
    << "A", "B", "C", "D", "E", "F", "G", "H", "I", "J", "K", "L", "M", "N",
       "O", "P", "Q", "R", "S", "T", "U", "V", "W", "X", "Y", "Z" >>

LowerOf(c) ==
    IF \E i \in 1..Len(UpperCase) : UpperCase[i] = c
    THEN Collation[13 + (CHOOSE i \in 1..Len(UpperCase) : UpperCase[i] = c)]
    ELSE c

PrimaryRank(c) ==
    LET l == LowerOf(c)
    IN  IF \E i \in 1..Len(Collation) : Collation[i] = l
        THEN CHOOSE i \in 1..Len(Collation) : Collation[i] = l
        ELSE 0

IsUpper(c) == \E i \in 1..Len(UpperCase) : UpperCase[i] = c

RECURSIVE ComparePrimary(_, _)
ComparePrimary(a, b) ==
    IF a = <<>> /\ b = <<>> THEN 0
    ELSE IF a = <<>> THEN -1
    ELSE IF b = <<>> THEN 1
    ELSE IF PrimaryRank(Head(a)) < PrimaryRank(Head(b)) THEN -1
    ELSE IF PrimaryRank(Head(a)) > PrimaryRank(Head(b)) THEN 1
    ELSE ComparePrimary(Tail(a), Tail(b))

RECURSIVE CompareCase(_, _)
CompareCase(a, b) ==
    IF a = <<>> \/ b = <<>> THEN 0
    ELSE IF IsUpper(Head(a)) = IsUpper(Head(b)) THEN CompareCase(Tail(a), Tail(b))
    ELSE IF IsUpper(Head(a)) THEN 1 ELSE -1

\* nameA.localeCompare(nameB): negative, zero or positive
LocaleCompare(a, b) ==
    LET p == ComparePrimary(a, b) IN IF p # 0 THEN p ELSE CompareCase(a, b)

\* Array.prototype.sort((a, b) => a.localeCompare(b)), which is stable: a
\* name comes after the names that sort before it and after the equal names
\* that stood before it
SortNames(names) ==
    LET before == <<>> \o [i \in 1..Len(names) |->
                      Cardinality({ j \in 1..Len(names) :
                          LET c == LocaleCompare(names[j], names[i])
                          IN  c < 0 \/ (c = 0 /\ j < i) })]
    IN  <<>> \o [p \in 1..Len(names) |->
                    names[CHOOSE i \in 1..Len(names) : before[i] = p - 1]]

(***************************************************************************)
(* buildDisplayItems of route.ts                                           *)
(***************************************************************************)

\* file.split("/")
Parts(file) == SplitOn(file, "/")

IsPrefixSeq(p, s) == Len(p) <= Len(s) /\ Take(s, Len(p)) = p

\* In the definitions below `walks` holds, for every file of fileList, its
\* parts (file.split("/")): the walk of the file from the root.

\* a node that keeps only the index of the file that created it
NodeFileIndicesFirst(walks, nodeParts) ==
    LET hit == [i \in 1..Len(walks) |-> IsPrefixSeq(nodeParts, walks[i])]
    IN  << SelectSeqIdx(hit, 1)[1] - 1 >>

\* node.fileIndices: the (0-based) indices of the files whose walk from the
\* root visits the node at `nodeParts`, in insertion (ascending) order
NodeFileIndices(walks, nodeParts) ==
    LET hit == [i \in 1..Len(walks) |-> IsPrefixSeq(nodeParts, walks[i])]
        idx == SelectSeqIdx(hit, 1)
    IN  [k \in 1..Len(idx) |-> idx[k] - 1]

\* a tree in which every node counts as a file
NodeIsFileAlways(walks, nodeParts) == TRUE

\* child.isFile: fixed when the node is created, by the first file that
\* reaches it (i === parts.length - 1)
NodeIsFile(walks, nodeParts) ==
    LET first == CHOOSE i \in 1..Len(walks) :
                     /\ IsPrefixSeq(nodeParts, walks[i])
                     /\ \A j \in 1..(i - 1) : ~IsPrefixSeq(nodeParts, walks[j])
    IN  Len(walks[first]) = Len(nodeParts)

\* the keys of node.children in insertion order: the next part of every file
\* from the i-th on that walks through the node at `nodeParts`, each the
\* first time it is met; `acc` holds the keys met before
ChildNames(walks, nodeParts, i, acc) ==
    LET Through(j) == /\ IsPrefixSeq(nodeParts, walks[j])
                      /\ Len(walks[j]) > Len(nodeParts)
        NextPart(j) == walks[j][Len(nodeParts) + 1]
        new == SelectSeq([j \in 1..Len(walks) |-> j],
                         LAMBDA j : /\ j >= i
                                    /\ Through(j)
                                    /\ ~SeqIncludes(acc, NextPart(j))
                                    /\ \A h \in i..(j - 1) :
                                           ~(Through(h) /\ NextPart(h) = NextPart(j)))
    IN  acc \o [k \in 1..Len(new) |-> NextPart(new[k])]

\* the item pushed for the child at `childParts`
MakeItem(walks, childParts, indent, id) ==
    [ path        |-> JoinWith(childParts, SLASH),
      displayName |-> childParts[Len(childParts)],
      indent      |-> indent,
      isDirectory |-> ~NodeIsFile(walks, childParts),
      fileIndices |-> NodeFileIndices(walks, childParts),
      id          |-> id,
      showInMatrix |-> NodeIsFile(walks, childParts) ]

RECURSIVE Digits(_)
\* `${n}`: the decimal digits of a number that is not negative
Digits(n) ==
    LET d == << "0", "1", "2", "3", "4", "5", "6", "7", "8", "9" >>
    IN  IF n < 10 THEN << d[n + 1] >> ELSE Digits(n \div 10) \o << d[(n % 10) + 1] >>

\* an id that forgets the parent's id
ItemIdFlat(parentId, index) == Digits(index + 1)

\* parentId ? `${parentId}.${index + 1}` : `${index + 1}`, with the 0-based
\* index of forEach; the empty string is the parentId of the root's children
ItemId(parentId, index) ==
    IF parentId # <<>> THEN parentId \o DOT \o Digits(index + 1) ELSE Digits(index + 1)

RECURSIVE Traverse(_, _, _, _)
RECURSIVE TraverseChildren(_, _, _, _, _, _)
\* the callback of sortedChildren.forEach(([, child], index) => ...) for
\* child k: what it pushes, the items beneath the child included
TraverseChildren(walks, nodeParts, indent, parentId, sorted, k) ==
    LET childParts == Append(nodeParts, sorted[k])
        id   == ItemId(parentId, k - 1)
        item == MakeItem(walks, childParts, indent, id)
    IN  <<item>>
        \o (IF item.isDirectory
            THEN Traverse(walks, childParts, indent + 1, id)
            ELSE <<>>)

\* traverse(node, indent, parentId)
Traverse(walks, nodeParts, indent, parentId) ==
    LET sorted == SortNames(ChildNames(walks, nodeParts, 1, <<>>))
    IN  Concat([k \in 1..Len(sorted) |->
                   TraverseChildren(walks, nodeParts, indent, parentId, sorted, k)])

\* buildDisplayItems(fileList)
BuildDisplayItems(fileList) ==
    Traverse(<<>> \o [i \in 1..Len(fileList) |-> Parts(fileList[i])], <<>>, 0, <<>>)

(***************************************************************************)
(* Map<K, V> and Set<K> keep insertion order: a map is a sequence of       *)
(* [k, v] entries with distinct keys.                                      *)
(***************************************************************************)

MapHas(m, key) == \E i \in 1..Len(m) : m[i].k = key

\* m.get(key) ?? default
MapGet(m, key, default) ==
    IF MapHas(m, key)
    THEN m[CHOOSE i \in 1..Len(m) : m[i].k = key].v
    ELSE default

\* m.set(key, value): an existing key keeps its place
MapSet(m, key, value) ==
    IF MapHas(m, key)
    THEN [m EXCEPT ![CHOOSE i \in 1..Len(m) : m[i].k = key] = [k |-> key, v |-> value]]
    ELSE Append(m, [k |-> key, v |-> value])

MapKeys(m) == [i \in 1..Len(m) |-> m[i].k]

\* a clear() that leaves the entries where they are
MapKept(m) == m

\* m.clear()
MapClear(m) == <<>>

\* set.add(x) on an insertion-ordered Set
SetAdd(s, x) == IF SeqIncludes(s, x) THEN s ELSE Append(s, x)

RECURSIVE SetAddAll(_, _)
SetAddAll(s, xs) == IF xs = <<>> THEN s ELSE SetAddAll(SetAdd(s, Head(xs)), Tail(xs))

\* the value `null`, which is no path
NULL == <<"null">>

\* allFiles.find(pred): the first element for which flags is TRUE, or undefined
FindFirst(seq, flags) ==
    IF \E i \in 1..Len(seq) : flags[i]
    THEN seq[CHOOSE i \in 1..Len(seq) : flags[i] /\ \A j \in 1..(i - 1) : ~flags[j]]
    ELSE NULL

(***************************************************************************)
(* analyzers/constants.ts, analyzers/index.ts                              *)
(***************************************************************************)

JS_EXTENSIONS == << <<".", "t", "s">>, <<".", "t", "s", "x">>, <<".", "j", "s">>, <<".", "j", "s", "x">>, <<".", "v", "u", "e">> >>
PYTHON_EXTENSIONS == << <<".", "p", "y">> >>
CPP_EXTENSIONS == << <<".", "c", "p", "p">>, <<".", "c">>, <<".", "h">>, <<".", "h", "p", "p">>, <<".", "c", "c">>, <<".", "c", "x", "x">>, <<".", "h", "x", "x">>, <<".", "h", "h">> >>
JAVA_EXTENSIONS == << <<".", "j", "a", "v", "a">> >>
CSHARP_EXTENSIONS == << <<".", "c", "s">> >>
GO_EXTENSIONS == << <<".", "g", "o">> >>
RUST_EXTENSIONS == << <<".", "r", "s">> >>
OTHER_EXTENSIONS == << <<".", "r", "s">>, <<".", "r", "b">>, <<".", "p", "h", "p">>, <<".", "s", "w", "i", "f", "t">>, <<".", "k", "t">>, <<".", "s", "c", "a", "l", "a">> >>

CODE_EXTENSIONS ==
    JS_EXTENSIONS \o PYTHON_EXTENSIONS \o CPP_EXTENSIONS \o JAVA_EXTENSIONS
    \o CSHARP_EXTENSIONS \o GO_EXTENSIONS \o OTHER_EXTENSIONS

EXCLUDED_DIRS ==
    << <<"n", "o", "d", "e", "_", "m", "o", "d", "u", "l", "e", "s", "/">>, <<"b", "o", "w", "e", "r", "_", "c", "o", "m", "p", "o", "n", "e", "n", "t", "s", "/">>, <<"v", "e", "n", "d", "o", "r", "/">>, <<"d", "i", "s", "t", "/">>, <<"b", "u", "i", "l", "d", "/">>,
       <<".", "g", "i", "t", "/">>, <<"c", "o", "v", "e", "r", "a", "g", "e", "/">>, <<"_", "_", "p", "y", "c", "a", "c", "h", "e", "_", "_", "/">>, <<".", "v", "e", "n", "v", "/">>, <<"v", "e", "n", "v", "/">> >>

\* the registry, in its order; each analyzer with its extensions and whether
\* it has analyzeAll
Analyzers ==
    << [name |-> "js",     extensions |-> JS_EXTENSIONS,     all |-> TRUE],
       [name |-> "python", extensions |-> PYTHON_EXTENSIONS, all |-> TRUE],
       [name |-> "java",   extensions |-> JAVA_EXTENSIONS,   all |-> TRUE],
       [name |-> "cpp",    extensions |-> CPP_EXTENSIONS,    all |-> TRUE],
       [name |-> "go",     extensions |-> GO_EXTENSIONS,     all |-> TRUE],
       [name |-> "rust",   extensions |-> RUST_EXTENSIONS,   all |-> FALSE],
       [name |-> "csharp", extensions |-> CSHARP_EXTENSIONS, all |-> TRUE] >>

NoAnalyzer == [name |-> "none", extensions |-> <<>>, all |-> FALSE]

\* getAnalyzer(filePath): the first analyzer one of whose extensions ends the path
GetAnalyzer(filePath) ==
    LET hit(a) == \E e \in 1..Len(a.extensions) : EndsWith(filePath, a.extensions[e])
    IN  IF \E i \in 1..Len(Analyzers) : hit(Analyzers[i])
        THEN Analyzers[CHOOSE i \in 1..Len(Analyzers) :
                           hit(Analyzers[i]) /\ \A j \in 1..(i - 1) : ~hit(Analyzers[j])]
        ELSE NoAnalyzer

\* the filter of cloneAndAnalyze: no excluded directory text anywhere in the
\* path, and one of the code extensions at its end
Admitted(file) ==
    /\ file # <<>>
    /\ ~\E d \in 1..Len(EXCLUDED_DIRS) : Includes(file, EXCLUDED_DIRS[d])
    /\ \E e \in 1..Len(CODE_EXTENSIONS) : EndsWith(file, CODE_EXTENSIONS[e])

FilterFiles(tracked) == SelectSeq(tracked, Admitted)

(***************************************************************************)
(* The content of a tracked file, as far as the analyzers look at it:      *)
(*   readable    fs.readFile / readFileSync of the file succeeds           *)
(*   strictParse the parser used for complexity accepts the source         *)
(*   looseParse  Babel with errorRecovery accepts the source               *)
(*   imports     the import clauses in source order, [kind, spec, names]:  *)
(*               what the analyzer's regular expression or parser extracts *)
(*   namespace   the first `namespace N` of a C# file ("" if none)         *)
(*   symbols     the top-level symbols the index pass extracts             *)
(*   body        the word tokens of the source outside its import clauses, *)
(*               each with whether "(" follows it                          *)
(*   lines       the number of non-blank lines                             *)
(*   decisions   the number of decision points the language's complexity   *)
(*               calculator counts in the source                           *)
(***************************************************************************)

Imp(kind, spec, names) == [kind |-> kind, spec |-> spec, names |-> names]

Word(w) == [w |-> w, call |-> FALSE]

Call(w) == [w |-> w, call |-> TRUE]

Content(imports, namespace, symbols, body, lines, decisions) ==
    [ readable |-> TRUE, strictParse |-> TRUE, looseParse |-> TRUE,
      imports |-> imports, namespace |-> namespace, symbols |-> symbols,
      body |-> body, lines |-> lines, decisions |-> decisions ]

\* a file that cannot be read (a dangling symbolic link, say)
Unreadable(c) == [c EXCEPT !.readable = FALSE]

\* a source neither parser accepts
Unparsable(c) == [c EXCEPT !.strictParse = FALSE, !.looseParse = FALSE]

\* a source only the error-recovering parser accepts
StrictUnparsable(c) == [c EXCEPT !.strictParse = FALSE]

\* the word tokens of the import clauses themselves: the names a clause lists
\* and the pieces of its specifier between "." and "/"
ClauseWords(imp) ==
    LET specWords == SelectSeq(Concat([i \in 1..Len(SplitOn(imp.spec, "/")) |->
                                          SplitOn(SplitOn(imp.spec, "/")[i], ".")]),
                               LAMBDA x : x # <<>>)
    IN  [i \in 1..Len(specWords) |-> Word(specWords[i])]
        \o [i \in 1..Len(imp.names) |-> Word(imp.names[i])]

\* every word token of the source, import clauses included
AllWords(c) == Concat([i \in 1..Len(c.imports) |-> ClauseWords(c.imports[i])]) \o c.body

\* (content.match(/\bw\b/g) || []).length
CountWord(c, w) == Cardinality({ i \in 1..Len(AllWords(c)) : AllWords(c)[i].w = w })

\* (content.match(/\bw\b(?!\()/g) || []).length
CountWordNoCall(c, w) ==
    Cardinality({ i \in 1..Len(AllWords(c)) : AllWords(c)[i].w = w /\ ~AllWords(c)[i].call })

\* the temporary directory fs.mkdtemp returns; "r" stands for six random
\* characters that spell no word
TMP_DIR == <<"/", "t", "m", "p", "/", "m", "a", "c", "a", "r", "o", "n", "i", "-", "r">>

\* the temporary directory when the six random characters spell "except"
TMP_DIR_EXCEPT ==
    <<"/", "t", "m", "p", "/", "m", "a", "c", "a", "r", "o", "n", "i", "-", "e", "x", "c", "e", "p", "t">>

\* the directories fs.mkdtemp may return
TmpDirs == { TMP_DIR, TMP_DIR_EXCEPT }

RECURSIVE NormAbsSegs(_, _)
\* the pieces of an absolute path with "." and ".." resolved (".." at the root
\* stays at the root)
NormAbsSegs(rest, acc) ==
    IF rest = <<>> THEN acc
    ELSE LET x == Head(rest) IN
         IF x = DOT THEN NormAbsSegs(Tail(rest), acc)
         ELSE IF x = <<".", ".">>
              THEN NormAbsSegs(Tail(rest), Take(acc, Len(acc) - 1))
              ELSE NormAbsSegs(Tail(rest), Append(acc, x))

\* path.resolve(fromDir, p) for an absolute fromDir and a relative p
PathResolve(fromDir, p) == NormAbsSegs(Segs(fromDir) \o Segs(p), <<>>)

\* path.relative(from, to), both given as the pieces of absolute paths
PathRelative(from, to) ==
    LET common == CHOOSE n \in 0..Len(from) :
                      /\ n <= Len(to)
                      /\ Take(from, n) = Take(to, n)
                      /\ \A m \in (n + 1)..Len(from) :
                             m > Len(to) \/ Take(from, m) # Take(to, m)
        ups == [i \in 1..(Len(from) - common) |-> <<".", ".">>]
    IN  JoinWith(ups \o Drop(to, common), SLASH)

(***************************************************************************)
(* analyzers/javascript.ts                                                 *)
(***************************************************************************)

RECURSIVE JsImportCounts(_, _)
\* the loop of extractImportsFromSource over ast.program.body: every import
\* declaration adds its number of specifiers (1 for a side-effect import)
\* to the count of its specifier text
JsImportCounts(imports, acc) ==
    IF imports = <<>> THEN acc
    ELSE LET node  == Head(imports)
             count == IF Len(node.names) = 0 THEN 1 ELSE Len(node.names)
         IN  JsImportCounts(Tail(imports),
                            MapSet(acc, node.spec, MapGet(acc, node.spec, 0) + count))

\* extractImportsFromSource(filePath): an unreadable or unparsable source
\* gives the empty map
ExtractImportsFromSource(c) ==
    IF c.readable /\ c.looseParse THEN JsImportCounts(c.imports, <<>>) ELSE <<>>

\* loadPathAliases(repoPath): tsconfig is the compilerOptions.paths of the
\* repository's tsconfig.json as [k, v] with v the first target (no entry
\* when there is no tsconfig.json); "/*" is cut from the end of both and
\* "./" from the start of the target
LoadPathAliases(tsconfig) ==
    LET cutStar(s) == IF EndsWith(s, <<"/", "*">>) THEN Take(s, Len(s) - 2) ELSE s
        cutDot(s)  == IF StartsWith(s, <<".", "/">>) THEN Drop(s, 2) ELSE s
    IN  [i \in 1..Len(tsconfig) |->
            [k |-> cutStar(tsconfig[i].k), v |-> cutDot(cutStar(tsconfig[i].v))]]

RelativeExts ==
    << <<".", "t", "s">>, <<".", "t", "s", "x">>, <<".", "j", "s">>, <<".", "j", "s", "x">>,
       <<"/", "i", "n", "d", "e", "x", ".", "t", "s">>, <<"/", "i", "n", "d", "e", "x", ".", "t", "s", "x">>, <<"/", "i", "n", "d", "e", "x", ".", "j", "s">>, <<"/", "i", "n", "d", "e", "x", ".", "j", "s", "x">> >>

AliasExts == << <<".", "t", "s">>, <<".", "t", "s", "x">>, <<".", "j", "s">>, <<".", "j", "s", "x">>, <<"/", "i", "n", "d", "e", "x", ".", "t", "s">>, <<"/", "i", "n", "d", "e", "x", ".", "t", "s", "x">> >>

\* the first of base + ext that is in files, or null
FirstWithExt(base, exts, files) ==
    FindFirst([i \in 1..Len(exts) |-> base \o exts[i]],
              [i \in 1..Len(exts) |-> SeqIncludes(files, base \o exts[i])])

RECURSIVE ResolveAlias(_, _, _)
\* the loop over pathAliases.entries(): the first alias whose substitution
\* names a file wins
ResolveAlias(specifier, files, aliases) ==
    IF aliases = <<>> THEN NULL
    ELSE LET prefix == Head(aliases).k \o SLASH
             hit == IF StartsWith(specifier, prefix)
                    THEN FirstWithExt(Head(aliases).v \o SLASH \o Drop(specifier, Len(prefix)),
                                      AliasExts, files)
                    ELSE NULL
         IN  IF hit # NULL THEN hit ELSE ResolveAlias(specifier, files, Tail(aliases))

\* a resolver that answers with the path the specifier names without looking
\* whether the repository has such a file
ResolveImportUnchecked(specifier, fromFile, repoPath, files, pathAliases) ==
    IF StartsWith(specifier, <<".", "/">>) \/ StartsWith(specifier, <<".", ".", "/">>)
    THEN PathRelative(Segs(repoPath),
                      PathResolve(JoinWith(Take(Segs(repoPath) \o Parts(fromFile),
                                                Len(Segs(repoPath)) + Len(Parts(fromFile)) - 1),
                                           SLASH),
                                  specifier)) \o <<".", "t", "s">>
    ELSE NULL

\* resolveImportToFile(specifier, fromFile, repoPath, files, pathAliases)
ResolveImportToFile(specifier, fromFile, repoPath, files, pathAliases) ==
    LET fromDir  == JoinWith(Take(Segs(repoPath) \o Parts(fromFile),
                                  Len(Segs(repoPath)) + Len(Parts(fromFile)) - 1), SLASH)
        resolved == PathResolve(fromDir, specifier)
        relative == PathRelative(Segs(repoPath), resolved)
        isRel    == StartsWith(specifier, <<".", "/">>) \/ StartsWith(specifier, <<".", ".", "/">>)
        withExt  == FirstWithExt(relative, RelativeExts, files)
    IN  IF isRel /\ withExt # NULL THEN withExt
        ELSE IF isRel /\ SeqIncludes(files, relative) THEN relative
        ELSE ResolveAlias(specifier, files, pathAliases)

RECURSIVE JsDepCounts(_, _, _, _, _, _)
\* the loop over importsBySpecifier.entries() of one file
JsDepCounts(entries, file, repoPath, files, aliases, acc) ==
    IF entries = <<>> THEN acc
    ELSE LET resolvedFile == ResolveImportToFile(Head(entries).k, file, repoPath, files, aliases)
         IN  JsDepCounts(Tail(entries), file, repoPath, files, aliases,
                         IF resolvedFile # NULL
                         THEN MapSet(acc, resolvedFile,
                                     MapGet(acc, resolvedFile, 0) + Head(entries).v)
                         ELSE acc)

RECURSIVE JsAnalyzeFrom(_, _, _, _, _, _)
JsAnalyzeFrom(files, repoPath, contents, aliases, i, acc) ==
    IF i > Len(files) THEN acc
    ELSE LET file == files[i]
             deps == JsDepCounts(ExtractImportsFromSource(contents[file]),
                                 file, repoPath, files, aliases, <<>>)
         IN  JsAnalyzeFrom(files, repoPath, contents, aliases, i + 1,
                           IF contents[file].readable /\ deps # <<>>
                           THEN MapSet(acc, file, deps) ELSE acc)

\* jsAnalyzer.analyzeAll(files, repoPath)
JsAnalyzeAll(files, repoPath, contents, tsconfig) ==
    JsAnalyzeFrom(files, repoPath, contents, LoadPathAliases(tsconfig), 1, <<>>)

(***************************************************************************)
(* analyzers/java.ts                                                       *)
(***************************************************************************)

RECURSIVE CountBySpec(_, _)
\* imports.set(name, (imports.get(name) || 0) + 1) for every clause
CountBySpec(imports, acc) ==
    IF imports = <<>> THEN acc
    ELSE CountBySpec(Tail(imports),
                     MapSet(acc, Head(imports).spec, MapGet(acc, Head(imports).spec, 0) + 1))

\* extractImports(content) of the Java analyzer
JavaExtractImports(c) == CountBySpec(c.imports, <<>>)

JavaExternalPrefixes ==
    << <<"j", "a", "v", "a", ".">>, <<"j", "a", "v", "a", "x", ".">>, <<"o", "r", "g", ".", "j", "u", "n", "i", "t", ".">>, <<"o", "r", "g", ".", "m", "o", "c", "k", "i", "t", "o", ".">>,
       <<"o", "r", "g", ".", "a", "p", "a", "c", "h", "e", ".", "c", "o", "m", "m", "o", "n", "s", ".">>, <<"o", "r", "g", ".", "a", "p", "a", "c", "h", "e", ".", "l", "o", "g", "4", "j", ".">> >>

\* javaImportToFilePath(importPath, allFiles)
JavaImportToFilePath(importPath, allFiles) ==
    LET packagePath == ReplaceAll(importPath, ".", SLASH) \o <<".", "j", "a", "v", "a">>
        byPackage == FindFirst(allFiles,
                        [i \in 1..Len(allFiles) |-> EndsWith(allFiles[i], packagePath)])
        names     == SplitOn(importPath, ".")
        className == names[Len(names)]
        byClass   == FindFirst(allFiles,
                        [i \in 1..Len(allFiles) |->
                            EndsWith(allFiles[i], SLASH \o className \o <<".", "j", "a", "v", "a">>)])
    IN  IF EndsWith(importPath, <<".", "*">>) THEN NULL
        ELSE IF \E p \in 1..Len(JavaExternalPrefixes) :
                    StartsWith(importPath, JavaExternalPrefixes[p]) THEN NULL
        ELSE IF byPackage # NULL THEN byPackage
        ELSE IF className # <<>> THEN byClass
        ELSE NULL

RECURSIVE JavaDepCounts(_, _, _)
\* the loop over fileCounts.entries(): depCountMap.set(resolvedFile, count)
JavaDepCounts(entries, javaFiles, acc) ==
    IF entries = <<>> THEN acc
    ELSE LET resolvedFile == JavaImportToFilePath(Head(entries).k, javaFiles)
         IN  JavaDepCounts(Tail(entries), javaFiles,
                           IF resolvedFile # NULL
                           THEN MapSet(acc, resolvedFile, Head(entries).v)
                           ELSE acc)

RECURSIVE JavaCountsFrom(_, _, _, _)
\* the first loop of analyzeAll: importCounts gets the file only if it was
\* read and has imports
JavaCountsFrom(files, contents, i, importCounts) ==
    IF i > Len(files) THEN importCounts
    ELSE LET file == files[i]
             imports == IF contents[file].readable
                        THEN JavaExtractImports(contents[file]) ELSE <<>>
         IN  JavaCountsFrom(files, contents, i + 1,
                            IF imports # <<>> THEN MapSet(importCounts, file, imports)
                            ELSE importCounts)

RECURSIVE JavaAnalyzeFrom(_, _, _, _)
\* the second loop of analyzeAll
JavaAnalyzeFrom(files, importCounts, i, acc) ==
    IF i > Len(files) THEN acc
    ELSE LET file == files[i]
             fileCounts == MapGet(importCounts, file, <<>>)
             deps == JavaDepCounts(fileCounts, files, <<>>)
         IN  JavaAnalyzeFrom(files, importCounts, i + 1,
                             IF deps # <<>> THEN MapSet(acc, file, deps) ELSE acc)

\* the second loop on the importCounts the first loop left
JavaAnalyzeWith(counts, files) ==
    [deps |-> JavaAnalyzeFrom(files, counts, 1, <<>>), cache |-> counts]

\* javaAnalyzer.analyzeAll(files, repoPath) in a process whose module-level
\* importCounts is as given: the dependency map and importCounts afterwards
JavaAnalyzeAll(importCounts, files, contents) ==
    JavaAnalyzeWith(JavaCountsFrom(files, contents, 1, MapClear(importCounts)), files)

(***************************************************************************)
(* analyzers/cpp.ts                                                        *)
(***************************************************************************)

\* String.prototype.toLowerCase
ToLowerCase(s) == [i \in 1..Len(s) |-> LowerOf(s[i])]

\* [a-z]
IsLowerLetter(c) == \E i \in 14..Len(Collation) : Collation[i] = c

CppStandardHeaders ==
    << <<"a", "l", "g", "o", "r", "i", "t", "h", "m">>, <<"a", "r", "r", "a", "y">>, <<"a", "t", "o", "m", "i", "c">>, <<"b", "i", "t", "s", "e", "t">>, <<"c", "h", "r", "o", "n", "o">>, <<"c", "o", "m", "p", "l", "e", "x">>,
       <<"c", "o", "n", "d", "i", "t", "i", "o", "n", "_", "v", "a", "r", "i", "a", "b", "l", "e">>, <<"d", "e", "q", "u", "e">>, <<"e", "x", "c", "e", "p", "t", "i", "o", "n">>, <<"f", "o", "r", "w", "a", "r", "d", "_", "l", "i", "s", "t">>, <<"f", "s", "t", "r", "e", "a", "m">>,
       <<"f", "u", "n", "c", "t", "i", "o", "n", "a", "l">>, <<"f", "u", "t", "u", "r", "e">>, <<"i", "n", "i", "t", "i", "a", "l", "i", "z", "e", "r", "_", "l", "i", "s", "t">>, <<"i", "o", "m", "a", "n", "i", "p">>, <<"i", "o", "s">>, <<"i", "o", "s", "f", "w", "d">>,
       <<"i", "o", "s", "t", "r", "e", "a", "m">>, <<"i", "s", "t", "r", "e", "a", "m">>, <<"i", "t", "e", "r", "a", "t", "o", "r">>, <<"l", "i", "m", "i", "t", "s">>, <<"l", "i", "s", "t">>, <<"l", "o", "c", "a", "l", "e">>, <<"m", "a", "p">>,
       <<"m", "e", "m", "o", "r", "y">>, <<"m", "u", "t", "e", "x">>, <<"n", "e", "w">>, <<"n", "u", "m", "e", "r", "i", "c">>, <<"o", "p", "t", "i", "o", "n", "a", "l">>, <<"o", "s", "t", "r", "e", "a", "m">>, <<"q", "u", "e", "u", "e">>,
       <<"r", "a", "n", "d", "o", "m">>, <<"r", "a", "t", "i", "o">>, <<"r", "e", "g", "e", "x">>, <<"s", "e", "t">>, <<"s", "h", "a", "r", "e", "d", "_", "m", "u", "t", "e", "x">>, <<"s", "s", "t", "r", "e", "a", "m">>, <<"s", "t", "a", "c", "k">>,
       <<"s", "t", "d", "e", "x", "c", "e", "p", "t">>, <<"s", "t", "r", "e", "a", "m", "b", "u", "f">>, <<"s", "t", "r", "i", "n", "g">>, <<"s", "t", "r", "i", "n", "g", "_", "v", "i", "e", "w">>, <<"s", "y", "s", "t", "e", "m", "_", "e", "r", "r", "o", "r">>,
       <<"t", "h", "r", "e", "a", "d">>, <<"t", "u", "p", "l", "e">>, <<"t", "y", "p", "e", "_", "t", "r", "a", "i", "t", "s">>, <<"t", "y", "p", "e", "i", "n", "d", "e", "x">>, <<"t", "y", "p", "e", "i", "n", "f", "o">>,
       <<"u", "n", "o", "r", "d", "e", "r", "e", "d", "_", "m", "a", "p">>, <<"u", "n", "o", "r", "d", "e", "r", "e", "d", "_", "s", "e", "t">>, <<"u", "t", "i", "l", "i", "t", "y">>, <<"v", "a", "l", "a", "r", "r", "a", "y">>, <<"v", "a", "r", "i", "a", "n", "t">>,
       <<"v", "e", "c", "t", "o", "r">> >>

CStandardHeaders ==
    << <<"a", "s", "s", "e", "r", "t">>, <<"c", "t", "y", "p", "e">>, <<"e", "r", "r", "n", "o">>, <<"f", "l", "o", "a", "t">>, <<"i", "n", "t", "t", "y", "p", "e", "s">>, <<"i", "s", "o", "6", "4", "6">>, <<"l", "i", "m", "i", "t", "s">>,
       <<"l", "o", "c", "a", "l", "e">>, <<"m", "a", "t", "h">>, <<"s", "e", "t", "j", "m", "p">>, <<"s", "i", "g", "n", "a", "l">>, <<"s", "t", "d", "a", "l", "i", "g", "n">>, <<"s", "t", "d", "a", "r", "g">>, <<"s", "t", "d", "a", "t", "o", "m", "i", "c">>,
       <<"s", "t", "d", "b", "o", "o", "l">>, <<"s", "t", "d", "d", "e", "f">>, <<"s", "t", "d", "i", "n", "t">>, <<"s", "t", "d", "i", "o">>, <<"s", "t", "d", "l", "i", "b">>, <<"s", "t", "d", "n", "o", "r", "e", "t", "u", "r", "n">>,
       <<"s", "t", "r", "i", "n", "g">>, <<"t", "g", "m", "a", "t", "h">>, <<"t", "h", "r", "e", "a", "d", "s">>, <<"t", "i", "m", "e">>, <<"u", "c", "h", "a", "r">>, <<"w", "c", "h", "a", "r">>, <<"w", "c", "t", "y", "p", "e">> >>

PlatformPrefixes ==
    << <<"w", "i", "n", "d", "o", "w", "s">>, <<"w", "i", "n", "a", "p", "i">>, <<"w", "i", "n", "3", "2">>, <<"p", "o", "s", "i", "x">>, <<"p", "t", "h", "r", "e", "a", "d">>, <<"s", "y", "s", "/">>, <<"l", "i", "n", "u", "x", "/">>,
       <<"d", "a", "r", "w", "i", "n", "/">> >>

\* isSystemHeader(includePath): the six patterns, on the lower-cased path
IsSystemHeader(includePath) ==
    LET p == ToLowerCase(includePath)
    IN  \/ StartsWith(p, <<"s", "t", "d">>)
        \/ Len(p) >= 2 /\ p[1] = "c" /\ \A i \in 2..Len(p) : IsLowerLetter(p[i])
        \/ Len(p) >= 3 /\ EndsWith(p, <<".", "h">>)
              /\ \A i \in 1..(Len(p) - 2) : IsLowerLetter(p[i]) \/ p[i] = "_"
        \/ SeqIncludes(CppStandardHeaders, p)
        \/ \E i \in 1..Len(CStandardHeaders) : p = CStandardHeaders[i] \o <<".", "h">>
        \/ \E i \in 1..Len(PlatformPrefixes) : StartsWith(p, PlatformPrefixes[i])

\* extractIncludes(content): the quoted includes first, then the angle
\* bracket includes that are no system headers
ExtractIncludes(c) ==
    LET quoted == SelectSeq(c.imports, LAMBDA n : n.kind = "quote")
        angled == SelectSeq(c.imports,
                            LAMBDA n : n.kind = "angle" /\ ~IsSystemHeader(n.spec))
    IN  CountBySpec(quoted \o angled, <<>>)

CommonDirs == << <<"i", "n", "c", "l", "u", "d", "e">>, <<"s", "r", "c">>, <<"l", "i", "b">>, <<"c", "o", "m", "m", "o", "n">>, <<"i", "n", "c">>, <<"h", "e", "a", "d", "e", "r", "s">> >>

\* new RegExp(`${baseDir}/.*${includePath}$`).test(f)
MatchesUnder(f, baseDir, includePath) ==
    /\ EndsWith(f, includePath)
    /\ \E i \in 1..Len(f) :
          /\ i + Len(baseDir) + Len(includePath) <= Len(f)
          /\ Slice(f, i, i + Len(baseDir)) = baseDir \o SLASH

\* resolveIncludePath(fromFile, includePath, allFiles)
ResolveIncludePath(fromFile, includePath, allFiles) ==
    LET dir == DirName(fromFile)
        s1  == PathJoin(dir, includePath)
        s3  == [b \in 1..Len(CommonDirs) |-> PathJoin(CommonDirs[b], includePath)]
        s4  == [b \in 1..Len(CommonDirs) |->
                   FindFirst(allFiles,
                       [i \in 1..Len(allFiles) |->
                           MatchesUnder(allFiles[i], CommonDirs[b], includePath)])]
        exactMatches == SelectSeq(allFiles,
                            LAMBDA f : EndsWith(f, SLASH \o includePath) \/ f = includePath)
        fileName == BaseName(includePath)
        filenameMatches == SelectSeq(allFiles, LAMBDA f : BaseName(f) = fileName)
        includeDir == DirName(includePath)
        bestMatch == FindFirst(filenameMatches,
                        [i \in 1..Len(filenameMatches) |->
                            Includes(filenameMatches[i], includeDir)])
    IN  IF SeqIncludes(allFiles, s1) THEN s1
        ELSE IF SeqIncludes(allFiles, includePath) THEN includePath
        ELSE IF \E b \in 1..Len(CommonDirs) : SeqIncludes(allFiles, s3[b])
             THEN s3[CHOOSE b \in 1..Len(CommonDirs) :
                        /\ SeqIncludes(allFiles, s3[b])
                        /\ \A a \in 1..(b - 1) : ~SeqIncludes(allFiles, s3[a])]
        ELSE IF \E b \in 1..Len(CommonDirs) : s4[b] # NULL
             THEN s4[CHOOSE b \in 1..Len(CommonDirs) :
                        s4[b] # NULL /\ \A a \in 1..(b - 1) : s4[a] = NULL]
        ELSE IF Len(exactMatches) = 1 THEN exactMatches[1]
        ELSE IF Len(filenameMatches) = 1 THEN filenameMatches[1]
        ELSE IF Len(filenameMatches) > 1
             THEN IF includeDir # DOT /\ bestMatch # NULL THEN bestMatch
                  ELSE filenameMatches[1]
        ELSE NULL

RECURSIVE CppDepCounts(_, _, _, _)
\* the loop over fileCounts.entries(): depCountMap.set(resolvedFile, count)
\* unless the include resolves to the including file
CppDepCounts(entries, file, cppFiles, acc) ==
    IF entries = <<>> THEN acc
    ELSE LET resolvedFile == ResolveIncludePath(file, Head(entries).k, cppFiles)
         IN  CppDepCounts(Tail(entries), file, cppFiles,
                          IF resolvedFile # NULL /\ resolvedFile # file
                          THEN MapSet(acc, resolvedFile, Head(entries).v)
                          ELSE acc)

RECURSIVE CppCountsFrom(_, _, _, _)
\* the first loop of analyzeAll: includeCounts gets the file only if it was
\* read and has includes
CppCountsFrom(files, contents, i, includeCounts) ==
    IF i > Len(files) THEN includeCounts
    ELSE LET file == files[i]
             includes == IF contents[file].readable
                         THEN ExtractIncludes(contents[file]) ELSE <<>>
         IN  CppCountsFrom(files, contents, i + 1,
                           IF includes # <<>> THEN MapSet(includeCounts, file, includes)
                           ELSE includeCounts)

RECURSIVE CppAnalyzeFrom(_, _, _, _)
\* the second loop of analyzeAll
CppAnalyzeFrom(files, includeCounts, i, acc) ==
    IF i > Len(files) THEN acc
    ELSE LET file == files[i]
             fileCounts == MapGet(includeCounts, file, <<>>)
             deps == CppDepCounts(fileCounts, file, files, <<>>)
         IN  CppAnalyzeFrom(files, includeCounts, i + 1,
                            IF deps # <<>> THEN MapSet(acc, file, deps) ELSE acc)

\* the second loop on the includeCounts the first loop left
CppAnalyzeWith(counts, files) ==
    [deps |-> CppAnalyzeFrom(files, counts, 1, <<>>), cache |-> counts]

\* cppAnalyzer.analyzeAll(files, repoPath), with INCLUDE_TESTS = true, in a
\* process whose module-level includeCounts is as given
CppAnalyzeAll(includeCounts, files, contents) ==
    CppAnalyzeWith(CppCountsFrom(files, contents, 1, MapClear(includeCounts)), files)

(***************************************************************************)
(* analyzers/python.ts                                                     *)
(***************************************************************************)

STAR == <<"*">>

\* file.replace(/\.py$/, '').replace(/\/__init__$/, '').split('/').join('.')
PythonModulePath(file) ==
    LET a == IF EndsWith(file, <<".", "p", "y">>) THEN Take(file, Len(file) - 3) ELSE file
        b == IF EndsWith(a, <<"/", "_", "_", "i", "n", "i", "t", "_", "_">>) THEN Take(a, Len(a) - 9) ELSE a
    IN  ReplaceAll(b, "/", DOT)

RECURSIVE PythonCacheFrom(_, _, _, _)
\* buildPythonModuleCache(allFiles, baseDir): a file that cannot be read gets
\* no entry
PythonCacheFrom(files, contents, i, acc) ==
    IF i > Len(files) THEN acc
    ELSE PythonCacheFrom(files, contents, i + 1,
             IF contents[files[i]].readable
             THEN MapSet(acc, files[i],
                         [modulePath |-> PythonModulePath(files[i]),
                          symbols |-> contents[files[i]].symbols])
             ELSE acc)

\* moduleCache.clear(), then one entry for each file that can be read
BuildPythonModuleCache(moduleCache, files, contents) ==
    PythonCacheFrom(files, contents, 1, MapClear(moduleCache))

\* the number of leading dots of a module name
LeadingDots(m) ==
    CHOOSE n \in 0..Len(m) :
        /\ \A i \in 1..n : m[i] = "."
        /\ (n < Len(m) => m[n + 1] # ".")

RECURSIVE DirNameTimes(_, _)
DirNameTimes(dir, n) == IF n <= 0 THEN dir ELSE DirNameTimes(DirName(dir), n - 1)

\* the module a relative import names, seen from currentFile
ExpectedModule(fromModule, currentFile) ==
    LET dots == LeadingDots(fromModule)
        moduleWithoutDots == Drop(fromModule, dots)
        targetDir == DirNameTimes(DirName(currentFile), dots - 1)
        full == IF moduleWithoutDots # <<>>
                THEN targetDir \o SLASH \o moduleWithoutDots ELSE targetDir
    IN  JoinWith(Segs(full), DOT)

\* modulePath === m || modulePath.startsWith(m + '.')
ModuleMatches(modulePath, m) == modulePath = m \/ StartsWith(modulePath, m \o DOT)

\* pythonImportToFilePaths(importStatement, fromModule, currentFile) against
\* the module cache; fromModule is null for a plain import
PythonImportToFilePaths(cache, importStatement, fromModule, currentFile) ==
    LET hit(e) ==
            /\ e.k # currentFile
            /\ IF fromModule # NULL
               THEN /\ ModuleMatches(e.v.modulePath,
                                     IF StartsWith(fromModule, DOT)
                                     THEN ExpectedModule(fromModule, currentFile)
                                     ELSE fromModule)
                    /\ SeqIncludes(e.v.symbols, importStatement) \/ importStatement = STAR
               ELSE ModuleMatches(e.v.modulePath, importStatement)
    IN  MapKeys(SelectSeq(cache, hit))

PythonStdLibPrefixes ==
    << <<"s", "y", "s">>, <<"o", "s">>, <<"r", "e">>, <<"j", "s", "o", "n">>, <<"d", "a", "t", "e", "t", "i", "m", "e">>, <<"c", "o", "l", "l", "e", "c", "t", "i", "o", "n", "s">>, <<"t", "y", "p", "i", "n", "g">>,
       <<"p", "a", "t", "h", "l", "i", "b">>, <<"i", "o">>, <<"t", "i", "m", "e">>, <<"r", "a", "n", "d", "o", "m">>, <<"m", "a", "t", "h">>, <<"l", "o", "g", "g", "i", "n", "g">>, <<"u", "n", "i", "t", "t", "e", "s", "t">>,
       <<"a", "r", "g", "p", "a", "r", "s", "e">>, <<"s", "u", "b", "p", "r", "o", "c", "e", "s", "s">>, <<"t", "h", "r", "e", "a", "d", "i", "n", "g">>, <<"m", "u", "l", "t", "i", "p", "r", "o", "c", "e", "s", "s", "i", "n", "g">>, <<"a", "s", "y", "n", "c", "i", "o">>,
       <<"d", "j", "a", "n", "g", "o">>, <<"f", "l", "a", "s", "k">>, <<"n", "u", "m", "p", "y">>, <<"p", "a", "n", "d", "a", "s">>, <<"r", "e", "q", "u", "e", "s", "t", "s">>, <<"p", "y", "t", "e", "s", "t">>,
       <<"s", "q", "l", "a", "l", "c", "h", "e", "m", "y">>, <<"r", "e", "d", "i", "s">>, <<"c", "e", "l", "e", "r", "y">>, <<"b", "o", "t", "o", "3">>, <<"p", "y", "d", "a", "n", "t", "i", "c">> >>

\* isStandardLibrary(moduleName) of the Python analyzer
PythonIsStandardLibrary(moduleName) ==
    \E i \in 1..Len(PythonStdLibPrefixes) : ModuleMatches(moduleName, PythonStdLibPrefixes[i])

RECURSIVE PythonFromImports(_, _)
PythonFromImports(clauses, acc) ==
    IF clauses = <<>> THEN acc
    ELSE LET m == Head(clauses).spec
         IN  PythonFromImports(Tail(clauses),
                 MapSet(acc, m, SetAddAll(MapGet(acc, m, <<>>), Head(clauses).names)))

\* extractImports(content) of the Python analyzer: the set of plain imports
\* and the map from module to the set of symbols imported from it
PythonExtractImports(c) ==
    [ imports |->
          SetAddAll(<<>>,
              [i \in 1..Len(SelectSeq(c.imports,
                        LAMBDA n : n.kind = "import" /\ ~PythonIsStandardLibrary(n.spec))) |->
                  SelectSeq(c.imports,
                        LAMBDA n : n.kind = "import" /\ ~PythonIsStandardLibrary(n.spec))[i].spec]),
      fromImports |->
          PythonFromImports(SelectSeq(c.imports,
                        LAMBDA n : n.kind = "from" /\ ~PythonIsStandardLibrary(n.spec)), <<>>) ]

RECURSIVE AddToEach(_, _, _)
\* for (const dep of resolvedFiles) fileDeps.set(dep, (fileDeps.get(dep) || 0) + n)
AddToEach(fileDeps, resolvedFiles, n) ==
    IF resolvedFiles = <<>> THEN fileDeps
    ELSE AddToEach(MapSet(fileDeps, Head(resolvedFiles),
                          MapGet(fileDeps, Head(resolvedFiles), 0) + n),
                   Tail(resolvedFiles), n)

RECURSIVE PythonPlainDeps(_, _, _, _)
PythonPlainDeps(cache, imports, file, acc) ==
    IF imports = <<>> THEN acc
    ELSE PythonPlainDeps(cache, Tail(imports), file,
             AddToEach(acc, PythonImportToFilePaths(cache, Head(imports), NULL, file), 1))

RECURSIVE PythonSymbolDeps(_, _, _, _, _, _)
\* the loop over the symbols of one from-import: a wildcard counts one per
\* file, a symbol counts its uses in the importing source when there are any
PythonSymbolDeps(cache, c, module, symbols, file, acc) ==
    IF symbols = <<>> THEN acc
    ELSE LET symbol == Head(symbols)
             resolvedFiles == PythonImportToFilePaths(cache, symbol, module, file)
             uses == CountWordNoCall(c, symbol)
         IN  PythonSymbolDeps(cache, c, module, Tail(symbols), file,
                 IF symbol = STAR THEN AddToEach(acc, resolvedFiles, 1)
                 ELSE IF uses > 0 THEN AddToEach(acc, resolvedFiles, uses)
                 ELSE acc)

RECURSIVE PythonFromDeps(_, _, _, _, _)
PythonFromDeps(cache, c, fromImports, file, acc) ==
    IF fromImports = <<>> THEN acc
    ELSE PythonFromDeps(cache, c, Tail(fromImports), file,
             PythonSymbolDeps(cache, c, Head(fromImports).k, Head(fromImports).v, file, acc))

RECURSIVE PythonAnalyzeFrom(_, _, _, _, _)
PythonAnalyzeFrom(files, contents, cache, i, acc) ==
    IF i > Len(files) THEN acc
    ELSE LET file == files[i]
             c == contents[file]
             ex == PythonExtractImports(c)
             fileDeps == PythonFromDeps(cache, c, ex.fromImports, file,
                             PythonPlainDeps(cache, ex.imports, file, <<>>))
         IN  PythonAnalyzeFrom(files, contents, cache, i + 1,
                 IF c.readable /\ fileDeps # <<>> THEN MapSet(acc, file, fileDeps) ELSE acc)

\* the loop over the files on the cache built before it
PythonAnalyzeWith(cache, files, contents) ==
    [deps |-> PythonAnalyzeFrom(files, contents, cache, 1, <<>>), cache |-> cache]

\* pythonAnalyzer.analyzeAll(files, repoPath)
PythonAnalyzeAll(moduleCache, files, contents) ==
    PythonAnalyzeWith(BuildPythonModuleCache(moduleCache, files, contents), files, contents)

(***************************************************************************)
(* analyzers/csharp.ts                                                     *)
(***************************************************************************)

RECURSIVE CSharpCacheFrom(_, _, _, _)
\* buildCSharpNamespaceCache(allFiles, baseDir): files that cannot be read
\* are skipped
CSharpCacheFrom(files, contents, i, acc) ==
    IF i > Len(files) THEN acc
    ELSE CSharpCacheFrom(files, contents, i + 1,
             IF contents[files[i]].readable
             THEN MapSet(acc, files[i],
                         [namespace |-> contents[files[i]].namespace,
                          className |-> BaseNameExt(files[i], <<".", "c", "s">>)])
             ELSE acc)

\* namespaceCache.clear(), then one entry for each file that can be read
BuildCSharpNamespaceCache(namespaceCache, files, contents) ==
    CSharpCacheFrom(files, contents, 1, MapClear(namespaceCache))

\* namespace ? `${namespace}.${className}` : className
FullName(info) ==
    IF info.namespace # <<>> THEN info.namespace \o DOT \o info.className
    ELSE info.className

RECURSIVE CsharpUsingFrom(_, _, _, _)
\* the loop of csharpUsingToFilePaths: an exact class match returns that
\* file alone at once, otherwise the files of the namespace are collected
CsharpUsingFrom(cache, usingStatement, i, matches) ==
    IF i > Len(cache) THEN matches
    ELSE IF FullName(cache[i].v) = usingStatement THEN <<cache[i].k>>
    ELSE CsharpUsingFrom(cache, usingStatement, i + 1,
             IF cache[i].v.namespace = usingStatement
             THEN Append(matches, cache[i].k) ELSE matches)

\* csharpUsingToFilePaths(usingStatement)
CsharpUsingToFilePaths(cache, usingStatement) ==
    CsharpUsingFrom(cache, usingStatement, 1, <<>>)

\* the framework namespaces analyzeAll skips
CSharpSkipped(u) ==
    \/ StartsWith(u, <<"S", "y", "s", "t", "e", "m">>)
    \/ StartsWith(u, <<"M", "i", "c", "r", "o", "s", "o", "f", "t">>) /\ ~Includes(u, <<"e", "S", "h", "o", "p", "W", "e", "b">>)
    \/ StartsWith(u, <<"X", "u", "n", "i", "t">>)
    \/ StartsWith(u, <<"M", "o", "q">>)

\* the Set of using statements of a source that are not skipped
CSharpUsings(c) ==
    LET kept == SelectSeq(c.imports, LAMBDA n : ~CSharpSkipped(n.spec))
    IN  SetAddAll(<<>>, [i \in 1..Len(kept) |-> kept[i].spec])

\* content.match(/\bclassName\b(?![\w])/g): the import clauses and the
\* namespace declaration are part of the content
CSharpUsage(c, className) ==
    CountWord(c, className)
    + Cardinality({ i \in 1..Len(SplitOn(c.namespace, ".")) :
                       SplitOn(c.namespace, ".")[i] = className })

RECURSIVE CSharpNamespaceDeps(_, _, _, _, _)
\* the loop over filesInNamespace: fileDeps.set(potentialDep, usageCount)
CSharpNamespaceDeps(cache, c, file, filesInNamespace, acc) ==
    IF filesInNamespace = <<>> THEN acc
    ELSE LET potentialDep == Head(filesInNamespace)
             usageCount == CSharpUsage(c, MapGet(cache, potentialDep, NULL).className)
         IN  CSharpNamespaceDeps(cache, c, file, Tail(filesInNamespace),
                 IF potentialDep # file /\ MapHas(cache, potentialDep) /\ usageCount > 0
                 THEN MapSet(acc, potentialDep, usageCount)
                 ELSE acc)

RECURSIVE CSharpFileDeps(_, _, _, _, _)
CSharpFileDeps(cache, c, file, usings, acc) ==
    IF usings = <<>> THEN acc
    ELSE CSharpFileDeps(cache, c, file, Tail(usings),
             CSharpNamespaceDeps(cache, c, file,
                                 CsharpUsingToFilePaths(cache, Head(usings)), acc))

RECURSIVE CSharpAnalyzeFrom(_, _, _, _, _)
CSharpAnalyzeFrom(files, contents, cache, i, acc) ==
    IF i > Len(files) THEN acc
    ELSE LET file == files[i]
             c == contents[file]
             fileDeps == CSharpFileDeps(cache, c, file, CSharpUsings(c), <<>>)
         IN  CSharpAnalyzeFrom(files, contents, cache, i + 1,
                 IF c.readable /\ fileDeps # <<>> THEN MapSet(acc, file, fileDeps) ELSE acc)

\* the loop over the files on the cache built before it
CSharpAnalyzeWith(cache, files, contents) ==
    [deps |-> CSharpAnalyzeFrom(files, contents, cache, 1, <<>>), cache |-> cache]

\* csharpAnalyzer.analyzeAll(files, repoPath)
CSharpAnalyzeAll(namespaceCache, files, contents) ==
    CSharpAnalyzeWith(BuildCSharpNamespaceCache(namespaceCache, files, contents), files, contents)

(***************************************************************************)
(* analyzers/go.ts                                                         *)
(***************************************************************************)

RECURSIVE GoCacheFrom(_, _, _, _)
\* buildGoPackageCache(allFiles, baseDir): the package path of a file is its
\* directory; a file that cannot be read gets no entry
GoCacheFrom(files, contents, i, acc) ==
    IF i > Len(files) THEN acc
    ELSE GoCacheFrom(files, contents, i + 1,
             IF contents[files[i]].readable
             THEN MapSet(acc, files[i],
                         [packagePath |-> DirName(files[i]),
                          symbols |-> SetAddAll(<<>>, contents[files[i]].symbols)])
             ELSE acc)

\* packageCache.clear(), then one entry for each file that can be read
BuildGoPackageCache(packageCache, files, contents) ==
    GoCacheFrom(files, contents, 1, MapClear(packageCache))

\* goImportToFilePaths(importPath, currentFile) against the package cache
GoImportToFilePaths(cache, importPath, currentFile) ==
    LET hit(e) ==
            /\ e.k # currentFile
            /\ IF StartsWith(importPath, DOT)
               THEN e.v.packagePath = PathJoin(DirName(currentFile), importPath)
               ELSE \/ EndsWith(e.v.packagePath, importPath)
                    \/ Includes(importPath, e.v.packagePath)
    IN  MapKeys(SelectSeq(cache, hit))

GoStdLibPatterns ==
    << <<"f", "m", "t">>, <<"o", "s">>, <<"i", "o">>, <<"s", "t", "r", "i", "n", "g", "s">>, <<"s", "t", "r", "c", "o", "n", "v">>, <<"e", "r", "r", "o", "r", "s">>, <<"l", "o", "g">>, <<"t", "i", "m", "e">>,
       <<"m", "a", "t", "h">>, <<"s", "o", "r", "t">>, <<"s", "y", "n", "c">>, <<"c", "o", "n", "t", "e", "x", "t">>, <<"e", "n", "c", "o", "d", "i", "n", "g", "/">>, <<"n", "e", "t", "/">>, <<"c", "r", "y", "p", "t", "o", "/">>,
       <<"d", "a", "t", "a", "b", "a", "s", "e", "/">>, <<"t", "e", "s", "t", "i", "n", "g">>, <<"r", "u", "n", "t", "i", "m", "e">>, <<"r", "e", "f", "l", "e", "c", "t">>, <<"r", "e", "g", "e", "x", "p">>, <<"b", "y", "t", "e", "s">>,
       <<"b", "u", "f", "i", "o">>, <<"f", "l", "a", "g">>, <<"p", "a", "t", "h">>, <<"f", "i", "l", "e", "p", "a", "t", "h">> >>

\* isStandardLibrary(importPath) of the Go analyzer
GoIsStandardLibrary(importPath) ==
    /\ ~Includes(importPath, DOT)
    /\ \E i \in 1..Len(GoStdLibPatterns) : StartsWith(importPath, GoStdLibPatterns[i])

\* extractImports(content) of the Go analyzer: the single imports first,
\* then the grouped ones, as a Set
GoExtractImports(c) ==
    LET single  == SelectSeq(c.imports,
                       LAMBDA n : n.kind = "single" /\ ~GoIsStandardLibrary(n.spec))
        grouped == SelectSeq(c.imports,
                       LAMBDA n : n.kind = "group" /\ ~GoIsStandardLibrary(n.spec))
    IN  SetAddAll(<<>>, [i \in 1..Len(single \o grouped) |-> (single \o grouped)[i].spec])

RECURSIVE GoUsageCount(_, _)
\* the sum over depInfo.symbols of the matches of /\bsymbol\b/g
GoUsageCount(c, symbols) ==
    IF symbols = <<>> THEN 0
    ELSE CountWord(c, Head(symbols)) + GoUsageCount(c, Tail(symbols))

RECURSIVE GoPackageDeps(_, _, _, _)
\* the loop over resolvedFiles: fileDeps.set(dep, usageCount or 1)
GoPackageDeps(cache, c, resolvedFiles, acc) ==
    IF resolvedFiles = <<>> THEN acc
    ELSE LET dep == Head(resolvedFiles)
             usageCount == GoUsageCount(c, MapGet(cache, dep, NULL).symbols)
         IN  GoPackageDeps(cache, c, Tail(resolvedFiles),
                 IF ~MapHas(cache, dep) THEN acc
                 ELSE MapSet(acc, dep, IF usageCount > 0 THEN usageCount ELSE 1))

RECURSIVE GoFileDeps(_, _, _, _, _)
GoFileDeps(cache, c, file, imports, acc) ==
    IF imports = <<>> THEN acc
    ELSE GoFileDeps(cache, c, file, Tail(imports),
             GoPackageDeps(cache, c, GoImportToFilePaths(cache, Head(imports), file), acc))

RECURSIVE GoAnalyzeFrom(_, _, _, _, _)
GoAnalyzeFrom(files, contents, cache, i, acc) ==
    IF i > Len(files) THEN acc
    ELSE LET file == files[i]
             c == contents[file]
             fileDeps == GoFileDeps(cache, c, file, GoExtractImports(c), <<>>)
         IN  GoAnalyzeFrom(files, contents, cache, i + 1,
                 IF c.readable /\ fileDeps # <<>> THEN MapSet(acc, file, fileDeps) ELSE acc)

\* the loop over the files on the cache built before it
GoAnalyzeWith(cache, files, contents) ==
    [deps |-> GoAnalyzeFrom(files, contents, cache, 1, <<>>), cache |-> cache]

\* goAnalyzer.analyzeAll(files, repoPath)
GoAnalyzeAll(packageCache, files, contents) ==
    GoAnalyzeWith(BuildGoPackageCache(packageCache, files, contents), files, contents)

(***************************************************************************)
(* gitRepoAnalyzer.ts: grouping, analysis by language, aggregation         *)
(***************************************************************************)

MAX_FILES_FOR_DETAILED_ANALYSIS == 100

\* path.extname(file).toLowerCase(): from the last "." of the base name on,
\* empty when there is none or when it is the first character
ExtName(file) ==
    LET b == BaseName(file)
        dots == { i \in 2..Len(b) : b[i] = "." }
    IN  IF dots = {} THEN <<>>
        ELSE ToLowerCase(Drop(b, (CHOOSE i \in dots : \A j \in dots : j <= i) - 1))

\* a grouping that puts every file that has an analyzer in the bucket of the
\* first of them
GroupFilesTogether(files, acc) ==
    LET known == SelectSeq(files, LAMBDA f : GetAnalyzer(f) # NoAnalyzer)
    IN  IF known = <<>> THEN acc
        ELSE << [k |-> GetAnalyzer(known[1]).name, v |-> known] >>

\* the grouping loop: filesByAnalyzer, keyed by the analyzer, in the order in
\* which each analyzer's first file appears; `acc` holds the groups made before
GroupFiles(files, acc) ==
    LET names  == <<>> \o [i \in 1..Len(files) |-> GetAnalyzer(files[i]).name]
        firsts == SelectSeq([i \in 1..Len(files) |-> i],
                            LAMBDA i : /\ names[i] # NoAnalyzer.name
                                       /\ ~MapHas(acc, names[i])
                                       /\ \A j \in 1..(i - 1) : names[j] # names[i])
        keys   == MapKeys(acc) \o [k \in 1..Len(firsts) |-> names[firsts[k]]]
        Of(key) == SelectSeq([i \in 1..Len(files) |-> i], LAMBDA i : names[i] = key)
    IN  [k \in 1..Len(keys) |->
            [k |-> keys[k],
             v |-> MapGet(acc, keys[k], <<>>)
                   \o [j \in 1..Len(Of(keys[k])) |-> files[Of(keys[k])[j]]]]]

\* totalFiles: the sum of the group sizes
TotalFiles(groups) ==
    Len(Concat([i \in 1..Len(groups) |-> groups[i].v]))

\* the module-level Maps of the analyzers as the server process loads them
FreshModules ==
    [importCounts |-> <<>>, includeCounts |-> <<>>, moduleCache |-> <<>>,
     namespaceCache |-> <<>>, packageCache |-> <<>>]

\* what an analyzeAll leaves: its dependency map, and the module-level Maps
\* with the analyzer's own Map as the call left it
WithMap(modules, map, out) ==
    [deps |-> out.deps, modules |-> [modules EXCEPT ![map] = out.cache]]

\* analyzer.analyzeAll(groupFiles, tmpDir) when it resolves, in a process
\* whose module-level Maps are `modules`: the dependency map it resolves
\* with and the module-level Maps it leaves
AnalyzeAllIn(modules, name, groupFiles, repoPath, contents, tsconfig) ==
    CASE name = "js" ->
             [deps |-> JsAnalyzeAll(groupFiles, repoPath, contents, tsconfig),
              modules |-> modules]
      [] name = "python" ->
             WithMap(modules, "moduleCache",
                     PythonAnalyzeAll(modules.moduleCache, groupFiles, contents))
      [] name = "java" ->
             WithMap(modules, "importCounts",
                     JavaAnalyzeAll(modules.importCounts, groupFiles, contents))
      [] name = "cpp" ->
             WithMap(modules, "includeCounts",
                     CppAnalyzeAll(modules.includeCounts, groupFiles, contents))
      [] name = "go" ->
             WithMap(modules, "packageCache",
                     GoAnalyzeAll(modules.packageCache, groupFiles, contents))
      [] name = "csharp" ->
             WithMap(modules, "namespaceCache",
                     CSharpAnalyzeAll(modules.namespaceCache, groupFiles, contents))
      [] OTHER -> [deps |-> <<>>, modules |-> modules]

\* the dependency map analyzeAll resolves with in a process that has
\* analysed nothing before, for a clone in TMP_DIR
AnalyzeAll(name, groupFiles, contents, tsconfig) ==
    AnalyzeAllIn(FreshModules, name, groupFiles, TMP_DIR, contents, tsconfig).deps

RECURSIVE MergeDeps(_, _)
\* for (const [file, fileDeps] of deps.entries()) allDependencies.set(file, fileDeps)
MergeDeps(allDeps, deps) ==
    IF deps = <<>> THEN allDeps
    ELSE MergeDeps(MapSet(allDeps, Head(deps).k, Head(deps).v), Tail(deps))

\* a complexity calculator that answers 0 for a source the parser rejects
CalculateComplexityZero(c) == IF c.strictParse THEN 1 + c.decisions ELSE 0

\* calculateComplexity(content, file) of javascript.ts: 1 when the parser
\* rejects the source, otherwise the sum over the functions, at least 1
CalculateComplexity(c) == IF c.strictParse THEN 1 + c.decisions ELSE 1

PythonKeywords ==
    << <<"i", "f">>, <<"e", "l", "i", "f">>, <<"f", "o", "r">>, <<"w", "h", "i", "l", "e">>, <<"e", "x", "c", "e", "p", "t">>, <<"a", "n", "d">>, <<"o", "r">>, <<"e", "l", "s", "e">> >>

\* calculatePythonComplexity(text): 1 plus the keywords that stand as words
\* of their own in the text it is given
CalculatePythonComplexity(text) ==
    LET pieces == Concat([i \in 1..Len(SplitOn(text, "/")) |->
                      Concat([j \in 1..Len(SplitOn(SplitOn(text, "/")[i], ".")) |->
                          SplitOn(SplitOn(SplitOn(text, "/")[i], ".")[j], "-")])])
    IN  1 + Cardinality({ i \in 1..Len(pieces) : SeqIncludes(PythonKeywords, pieces[i]) })

\* calculateJavaComplexity(fullPath): reads the file again, 1 when that fails
CalculateJavaComplexity(c) == IF c.readable THEN 1 + c.decisions ELSE 1

\* calculateCSharpComplexity(content)
CalculateCSharpComplexity(c) == 1 + c.decisions

JsComplexityExts == << <<".", "j", "s">>, <<".", "j", "s", "x">>, <<".", "t", "s">>, <<".", "t", "s", "x">>, <<".", "m", "j", "s">>, <<".", "c", "j", "s">> >>

\* the complexity branch of the aggregation loop, for a clone in tmpDir
ComplexityIn(tmpDir, file, c) ==
    LET ext == ExtName(file)
    IN  IF SeqIncludes(JsComplexityExts, ext) THEN CalculateComplexity(c)
        ELSE IF ext = <<".", "p", "y">> THEN CalculatePythonComplexity(tmpDir \o SLASH \o file)
        ELSE IF ext = <<".", "j", "a", "v", "a">> THEN CalculateJavaComplexity(c)
        ELSE IF ext = <<".", "c", "s">> THEN CalculateCSharpComplexity(c)
        ELSE 0

\* the record the aggregation loop stores for one file of a clone in
\* tmpDir: the catch branch when the file cannot be read
FileRecordIn(tmpDir, file, c, allDeps) ==
    IF ~c.readable
    THEN [complexity |-> 0, lineCount |-> 0, dependencies |-> <<>>]
    ELSE LET dependencyMap == MapGet(allDeps, file, <<>>)
         IN  [complexity |-> ComplexityIn(tmpDir, file, c),
              lineCount |-> c.lines,
              dependencies |-> [i \in 1..Len(dependencyMap) |->
                                   [fileName |-> dependencyMap[i].k,
                                    dependencies |-> dependencyMap[i].v]]]

\* the same for a clone in TMP_DIR
FileRecord(file, c, allDeps) == FileRecordIn(TMP_DIR, file, c, allDeps)

(***************************************************************************)
(* The repositories the runs are checked on: every choice of paths below,  *)
(* in the order `git ls-files` prints them, each with one of the contents  *)
(* listed for it. A content may be damaged: unreadable (a dangling         *)
(* symbolic link, a submodule entry), or with a syntax error.              *)
(***************************************************************************)

Plain(lines, decisions) == Content(<<>>, <<>>, <<>>, <<>>, lines, decisions)

\* the contents of a path: the healthy ones, the first of them unreadable,
\* and where a parser reads the file, the first of them with a syntax error
\* that every parser rejects and with one only the strict parsers reject
Choices(kind, healthy) ==
    healthy \o << Unreadable(healthy[1]) >>
    \o (IF kind = "js" THEN << Unparsable(healthy[1]), StrictUnparsable(healthy[1]) >>
        ELSE IF kind = "json" THEN << Unparsable(healthy[1]) >>
        ELSE <<>>)

Universe ==
    << [path |-> <<"R", "E", "A", "D", "M", "E", ".", "m", "d">>, choices |-> << Plain(4, 0) >>],
       [path |-> <<"W", ".", "c", "s">>,
        choices |-> Choices("cs",
                    << Content(<< Imp("using", <<"n">>, <<>>), Imp("using", <<"S", "y", "s", "t", "e", "m", ".", "T", "e", "x", "t">>, <<>>) >>,
                               <<>>, <<>>, << Word(<<"K">>), Call(<<"K">>) >>, 5, 1),
                       Content(<< Imp("using", <<"n", ".", "K">>, <<>>) >>, <<>>, <<>>, <<>>, 2, 0),
                       Content(<< Imp("using", <<"n">>, <<>>) >>, <<>>, <<>>, <<>>, 3, 0) >>)],
       [path |-> <<"a", ".", "t", "s">>,
        choices |-> Choices("js",
                    << Content(<< Imp("es", <<".", "/", "d", "/", "b">>, << <<"x">>, <<"y">> >>) >>,
                               <<>>, <<>>, <<>>, 3, 1),
                       Content(<< Imp("es", <<".", "/", "d", "/", "b">>, <<>>),
                                  Imp("es", <<"@", "/", "b">>, << <<"x">> >>),
                                  Imp("es", <<".", "/", "a">>, <<>>) >>,
                               <<>>, <<>>, <<>>, 4, 0) >>)],
       [path |-> <<"d", "/", "b", ".", "t", "s">>,
        choices |-> Choices("js",
                    << Content(<< Imp("es", <<".", ".", "/", "a">>, << <<"q">> >>), Imp("es", <<"r", "e", "a", "c", "t">>, <<>>) >>,
                               <<>>, <<>>, <<>>, 6, 2),
                       Plain(1, 0) >>)],
       [path |-> <<"d", "i", "s", "t", "/", "z", ".", "j", "s">>, choices |-> << Plain(9, 3) >>],
       [path |-> <<"e", ".", "m", "j", "s">>, choices |-> << Plain(2, 1) >>],
       [path |-> <<"g", ".", "g", "o">>,
        choices |-> Choices("go",
                    << Content(<< Imp("single", <<"x", ".", "y", "/", "m">>, <<>>), Imp("single", <<"f", "m", "t">>, <<>>) >>,
                               <<>>, << <<"G">> >>, << Call(<<"U">>), Word(<<"U">>) >>, 7, 1),
                       Content(<< Imp("group", <<".", "/", "m">>, <<>>) >>,
                               <<>>, <<>>, <<>>, 3, 0) >>)],
       [path |-> <<"i", "/", "x", ".", "h">>,
        choices |-> Choices("cpp",
                    << Plain(2, 0),
                       Content(<< Imp("quote", <<"x", ".", "h">>, <<>>) >>, <<>>, <<>>, <<>>, 3, 1) >>)],
       [path |-> <<"k", "/", "m", ".", "p", "y">>,
        choices |-> Choices("python",
                    << Content(<<>>, <<>>, << <<"f">> >>, <<>>, 2, 1),
                       Content(<< Imp("import", <<"t">>, <<>>), Imp("import", <<"o", "s">>, <<>>) >>,
                               <<>>, << <<"f">> >>, <<>>, 4, 2) >>)],
       [path |-> <<"m", "/", "u", ".", "g", "o">>,
        choices |-> Choices("go",
                    << Content(<<>>, <<>>, << <<"U">> >>, <<>>, 3, 0),
                       Content(<< Imp("single", <<"x", ".", "y", "/", "q">>, <<>>) >>,
                               <<>>, << <<"U">> >>, <<>>, 4, 1) >>)],
       [path |-> <<"n", "/", "K", ".", "c", "s">>,
        choices |-> Choices("cs",
                    << Content(<<>>, <<"n">>, <<>>, <<>>, 4, 2),
                       Content(<< Imp("using", <<"W">>, <<>>) >>, <<"n">>, <<>>,
                               << Word(<<"W">>) >>, 5, 0) >>)],
       [path |-> <<"p", "/", "A", ".", "j", "a", "v", "a">>,
        choices |-> Choices("java",
                    << Content(<< Imp("import", <<"p", ".", "B">>, <<>>), Imp("import", <<"j", "a", "v", "a", ".", "u", "t", "i", "l", ".", "L", "i", "s", "t">>, <<>>) >>,
                               <<>>, <<>>, <<>>, 5, 1),
                       Content(<< Imp("import", <<"z", ".", "A">>, <<>>) >>, <<>>, <<>>, <<>>, 3, 0) >>)],
       [path |-> <<"p", "/", "B", ".", "j", "a", "v", "a">>,
        choices |-> Choices("java",
                    << Content(<< Imp("import", <<"p", ".", "A">>, <<>>), Imp("import", <<"p", ".", "A">>, <<>>) >>,
                               <<>>, <<>>, <<>>, 4, 2),
                       Plain(2, 0),
                       Content(<< Imp("import", <<"p", ".", "A">>, <<>>), Imp("import", <<"z", ".", "A">>, <<>>) >>,
                               <<>>, <<>>, <<>>, 3, 0) >>)],
       [path |-> <<"r", ".", "r", "s">>, choices |-> Choices("rust", << Plain(3, 1) >>)],
       [path |-> <<"r", "e", "d", "i", "s", "t", "/", "q", ".", "t", "s">>, choices |-> << Plain(5, 2) >>],
       [path |-> <<"t", ".", "p", "y">>,
        choices |-> Choices("python",
                    << Content(<< Imp("from", <<"k", ".", "m">>, << <<"f">> >>) >>,
                               <<>>, <<>>, << Call(<<"f">>), Word(<<"f">>) >>, 3, 0),
                       Content(<< Imp("from", <<"k", ".", "m">>, << STAR >>) >>,
                               <<>>, <<>>, <<>>, 2, 1),
                       Content(<< Imp("from", <<"k", ".", "m">>, << STAR >>) >>,
                               <<>>, <<>>, << Call(<<"f">>), Call(<<"f">>), Word(<<"f">>) >>, 4, 0) >>)],
       [path |-> <<"s", ".", "r", "b">>, choices |-> << Plain(2, 0) >>],
       [path |-> <<"t", "s", "c", "o", "n", "f", "i", "g", ".", "j", "s", "o", "n">>,
        choices |-> Choices("json",
                    << Content(<< Imp("paths", <<"@", "/", "*">>, << <<".", "/", "d", "/", "*">> >>) >>,
                               <<>>, <<>>, <<>>, 5, 0) >>)],
       [path |-> <<"y", ".", "c">>,
        choices |-> Choices("cpp",
                    << Content(<< Imp("quote", <<"i", "/", "x", ".", "h">>, <<>>), Imp("angle", <<"s", "t", "d", "i", "o", ".", "h">>, <<>>) >>,
                               <<>>, <<>>, <<>>, 6, 2),
                       Content(<< Imp("angle", <<"i", "/", "x", ".", "h">>, <<>>), Imp("quote", <<"i", "/", "x", ".", "h">>, <<>>) >>,
                               <<>>, <<>>, <<>>, 3, 0),
                       Content(<< Imp("quote", <<"i", "/", "x", ".", "h">>, <<>>), Imp("quote", <<"x", ".", "h">>, <<>>) >>,
                               <<>>, <<>>, <<>>, 4, 1) >>) ] >>

\* the largest number of inputs of a run: the progress lines git prints
\* while cloning and the files the clone turns out to track, together
MaxSize == 2

\* the choices of at most n paths (positions of Universe)
RECURSIVE Selections(_)
Selections(n) ==
    IF n <= 0 THEN { {} }
    ELSE LET smaller == Selections(n - 1)
         IN  smaller \cup { s \cup {i} : s \in smaller, i \in 1..Len(Universe) }

\* the choices of one content for each chosen path
Picks(sel) ==
    { f \in [sel -> 1..5] : \A i \in sel : f[i] <= Len(Universe[i].choices) }

\* a repository: the chosen paths and the content chosen for each, and how
\* many further source files it tracks
Repo(sel, pick) == [sel |-> sel, pick |-> pick, more |-> 0]

\* a repository with as many further files as the threshold counts
LargeRepo(sel, pick) ==
    [sel |-> sel, pick |-> pick, more |-> MAX_FILES_FOR_DETAILED_ANALYSIS]

\* the k-th further file: z/101.rs, z/102.rs, ... (the names have one width,
\* and so git lists them in this order after every path of Universe)
FurtherPath(k) ==
    <<"z", "/">> \o Digits(MAX_FILES_FOR_DETAILED_ANALYSIS + k) \o <<".", "r", "s">>

\* the further files are one line of source without imports
FurtherContent == Plain(1, 0)

NoRepo == Repo({}, <<>>)

\* what `git ls-files` prints for a repository
TrackedOf(r) ==
    LET idx == SelectSeqIdx([i \in 1..Len(Universe) |-> i \in r.sel], 1)
    IN  [k \in 1..Len(idx) |-> Universe[idx[k]].path]
        \o [k \in 1..r.more |-> FurtherPath(k)]

\* the content of each tracked file
ContentsOf(r) ==
    [p \in { Universe[i].path : i \in r.sel } \cup { FurtherPath(k) : k \in 1..r.more } |->
        IF \E j \in r.sel : Universe[j].path = p
        THEN LET i == CHOOSE j \in r.sel : Universe[j].path = p
             IN  Universe[i].choices[r.pick[i]]
        ELSE FurtherContent]

\* compilerOptions.paths of tsconfig.json, when the repository has one that
\* can be read and parsed
TsconfigOf(tracked, contents) ==
    IF SeqIncludes(tracked, <<"t", "s", "c", "o", "n", "f", "i", "g", ".", "j", "s", "o", "n">>)
       /\ contents[<<"t", "s", "c", "o", "n", "f", "i", "g", ".", "j", "s", "o", "n">>].readable /\ contents[<<"t", "s", "c", "o", "n", "f", "i", "g", ".", "j", "s", "o", "n">>].looseParse
    THEN [i \in 1..Len(contents[<<"t", "s", "c", "o", "n", "f", "i", "g", ".", "j", "s", "o", "n">>].imports) |->
             [k |-> contents[<<"t", "s", "c", "o", "n", "f", "i", "g", ".", "j", "s", "o", "n">>].imports[i].spec,
              v |-> contents[<<"t", "s", "c", "o", "n", "f", "i", "g", ".", "j", "s", "o", "n">>].imports[i].names[1]]]
    ELSE <<>>

(***************************************************************************)
(* api/analyze/route.ts: the progress stream                               *)
(*                                                                         *)
(* A channel is the ReadableStream's controller as the three send          *)
(* functions see it: the frames enqueued so far, the stream's state        *)
(* ("readable", "closed" after controller.close(), "cancelled" after the   *)
(* reader has gone away) and the isClosed flag of the start() closure.     *)
(* controller.enqueue and controller.close throw unless the stream is      *)
(* readable.                                                               *)
(***************************************************************************)

\* the text of a frame: a fixed part, a word and a number put into it
Msg(text, s, n) == [text |-> text, s |-> s, n |-> n]

NoData == [files |-> <<>>, displayItems |-> <<>>, fileList |-> <<>>, branch |-> ""]

Frame(type, message, data) == [type |-> type, message |-> message, data |-> data]

\* a send function that enqueues the error frame and leaves the stream open
SendErrorNoClose(ch, error) ==
    IF ch.isClosed THEN ch
    ELSE IF ch.stream = "readable"
         THEN [ch EXCEPT !.frames = Append(@, Frame("error", error, NoData))]
         ELSE [ch EXCEPT !.isClosed = TRUE]

\* sendProgress(message)
SendProgress(ch, message) ==
    IF ch.isClosed THEN ch
    ELSE IF ch.stream = "readable"
         THEN [ch EXCEPT !.frames = Append(@, Frame("progress", message, NoData))]
         ELSE [ch EXCEPT !.isClosed = TRUE]

\* sendError(error)
SendError(ch, error) ==
    IF ch.isClosed THEN ch
    ELSE IF ch.stream = "readable"
         THEN [ch EXCEPT !.frames = Append(@, Frame("error", error, NoData)),
                         !.stream = "closed", !.isClosed = TRUE]
         ELSE [ch EXCEPT !.isClosed = TRUE]

\* sendComplete(data)
SendComplete(ch, data) ==
    IF ch.isClosed THEN ch
    ELSE IF ch.stream = "readable"
         THEN [ch EXCEPT !.frames = Append(@, Frame("complete", Msg("", <<>>, 0), data)),
                         !.stream = "closed", !.isClosed = TRUE]
         ELSE [ch EXCEPT !.isClosed = TRUE]

\* a payload whose display items begin with an item for the root itself
DsmDataRooted(files, branch) ==
    [files |-> files,
     displayItems |-> << [ path |-> << DOT >>, displayName |-> << DOT >>,
                           indent |-> 0, isDirectory |-> TRUE,
                           fileIndices |-> <<>>, id |-> Digits(0),
                           showInMatrix |-> FALSE ] >>
                      \o BuildDisplayItems(MapKeys(files)),
     fileList |-> MapKeys(files),
     branch |-> branch]

\* the payload the route builds from what analyzeGitRepo resolved with
DsmData(files, branch) ==
    [files |-> files,
     displayItems |-> BuildDisplayItems(MapKeys(files)),
     fileList |-> MapKeys(files),
     branch |-> branch]

\* the rest of start() once analyzeGitRepo has resolved
RouteResolved(ch, files, branch) ==
    SendComplete(SendProgress(ch, Msg("Building file tree...", <<>>, 0)),
                 DsmData(files, branch))

\* the catch branch of start() once analyzeGitRepo has rejected
RouteRejected(ch, error) == SendError(ch, error)

(***************************************************************************)
(* One run: GET has been called with a repoUrl, the stream is open and     *)
(* start() is waiting for analyzeGitRepo.                                  *)
(***************************************************************************)

VARIABLES
    modules,         \* the module-level Maps of the analyzers
    served,          \* the runs the process has completed before this one
    pc,              \* where the run is waiting
    frames,          \* the frames enqueued on the stream, in order
    stream,          \* "readable", "closed" or "cancelled"
    isClosed,        \* the flag of the start() closure
    workspace,       \* "none", "exists" or "deleted": the temporary directory
    rmAttempts,      \* how many times `rm -rf` of the workspace has been run
    rmFailed,        \* an `rm -rf` of the workspace has failed
    cloneProc,       \* "none", "running", "exited", "failed" or "killed"
    gitLines,        \* the progress lines git has printed
    lastProgress,    \* the closure variable of the stderr handler
    lastPhase,       \* the closure variable of the stderr handler
    repo,            \* the repository the clone turned out to hold
    files,           \* the admitted files cloneAndAnalyze returned
    langIdx,         \* the position of the group analyzeAll is running for
    allDependencies, \* Map<file, Map<target, count>>
    fileIdx,         \* the position of the file the aggregation is reading
    fileData,        \* the records built so far, in insertion order
    error,           \* the error on its way to the route's catch
    steps,           \* the steps of the pipeline that have run
    rejected,        \* the analyzers whose analyzeAll has rejected
    cancelledAt,     \* where the run was when the reader went away
    readAfterCancel, \* a file has been read after the reader went away
    calls,           \* the send functions called directly
    goCalls,         \* the analyzeAll calls of the Go analyzer, each where it stands
    pass,            \* one analyzeAll call, statement by statement
    matrix,          \* the DSM component: its props and its collapsed Set
    page,            \* the analyze page: its state and its EventSources
    score            \* a call of countCircularDependencies: its argument and result

vars ==
    << modules, served, pc, frames, stream, isClosed, workspace, rmAttempts, rmFailed, cloneProc, gitLines,
       lastProgress, lastPhase, repo, files, langIdx, allDependencies, fileIdx,
       fileData, error, steps, rejected, cancelledAt, readAfterCancel, calls, goCalls, pass,
       matrix, page, score >>

\* the variables no step of a single run touches
elsewhere == << goCalls, pass, matrix, page, score >>

Channel == [frames |-> frames, stream |-> stream, isClosed |-> isClosed]

\* the DSM component before it is mounted
NoMatrix == [mounted |-> FALSE, data |-> NoData, collapsed |-> {}]

\* the analyze page without a repo parameter: the initial values of its
\* useState calls (null is the empty sequence), and no EventSource
NoPage ==
    [repoUrl |-> "", dsmData |-> <<>>, loading |-> FALSE, error |-> <<>>,
     progressMessage |-> <<>>, sources |-> <<>>]

\* countCircularDependencies has not been called
NoScore == [called |-> FALSE, data |-> <<>>, result |-> 0]

\* no analyzeAll call is being followed
NoPass ==
    [name |-> "", files |-> <<>>, contents |-> <<>>, indexed |-> 0, resolved |-> 0,
     cache |-> <<>>, deps |-> <<>>]

SetChannel(ch) ==
    /\ frames' = ch.frames
    /\ stream' = ch.stream
    /\ isClosed' = ch.isClosed

NoError == Msg("", <<>>, 0)

BRANCH == "main"

Init ==
    /\ modules = FreshModules
    /\ served = <<>>
    /\ pc = "mkdtemp"
    /\ frames = <<>>
    /\ stream = "readable"
    /\ isClosed = FALSE
    /\ workspace = "none"
    /\ rmAttempts = 0
    /\ rmFailed = FALSE
    /\ cloneProc = "none"
    /\ gitLines = 0
    /\ lastProgress = 0
    /\ lastPhase = ""
    /\ repo = NoRepo
    /\ files = <<>>
    /\ langIdx = 0
    /\ allDependencies = <<>>
    /\ fileIdx = 0
    /\ fileData = <<>>
    /\ error = NoError
    /\ steps = {}
    /\ rejected = {}
    /\ cancelledAt = "never"
    /\ readAfterCancel = FALSE
    /\ calls = 0
    /\ goCalls = <<>>
    /\ pass = NoPass
    /\ matrix = NoMatrix
    /\ page = NoPage
    /\ score = NoScore

\* String.prototype.toUpperCase
UpperOf(c) ==
    IF IsLowerLetter(c)
    THEN UpperCase[(CHOOSE i \in 14..Len(Collation) : Collation[i] = c) - 13]
    ELSE c

ToUpperCase(s) == [i \in 1..Len(s) |-> UpperOf(s[i])]

Tracked == TrackedOf(repo)

Contents == ContentsOf(repo)

Groups == GroupFiles(files, <<>>)

\* the analyzer of a group, looked up by its first file
AnalyzerOf(group) == GetAnalyzer(group.v[1])

\* a group announced with the text of the clone's progress frames
StartGroupAsCloning(ch, group) ==
    SendProgress(ch, Msg("Cloning repository...",
                         ToUpperCase(AnalyzerOf(group).extensions[1]), Len(group.v)))

\* onProgress(`Analyzing ${groupFiles.length} ${languageName} files...`)
StartGroup(ch, group) ==
    SendProgress(ch, Msg("Analyzing files...",
                         ToUpperCase(AnalyzerOf(group).extensions[1]), Len(group.v)))

\* what follows the last group: the "Compiling analysis..." frame, then the
\* aggregation loop waits for its first file, or with no file the function
\* returns into its finally block
AfterAnalysis(ch, fs) ==
    /\ SetChannel(SendProgress(ch, Msg("Compiling analysis...", <<>>, 0)))
    /\ pc' = IF fs = <<>> THEN "finally" ELSE "aggregating"
    /\ fileIdx' = IF fs = <<>> THEN 0 ELSE 1

\* what follows a group: the next group starts, or the analysis is over
AfterGroup(ch, groups, i, fs) ==
    IF i < Len(groups)
    THEN /\ SetChannel(StartGroup(ch, groups[i + 1]))
         /\ pc' = "analyzing"
         /\ langIdx' = i + 1
         /\ fileIdx' = fileIdx
    ELSE /\ AfterAnalysis(ch, fs)
         /\ langIdx' = i

\* fs.mkdtemp resolves: the first frame is sent and git clone is spawned
MkdtempOk ==
    /\ pc = "mkdtemp"
    /\ workspace' = "exists"
    /\ SetChannel(SendProgress(Channel, Msg("Cloning repository...", <<>>, 0)))
    /\ cloneProc' = "running"
    /\ pc' = "cloning"
    /\ UNCHANGED << rmAttempts, rmFailed, gitLines, lastProgress, lastPhase, repo, files, langIdx,
                    allDependencies, fileIdx, fileData, error, steps, rejected,
                    cancelledAt, readAfterCancel, calls >>
    /\ UNCHANGED << modules, served, elsewhere >>

\* fs.mkdtemp rejects, outside every try block: analyzeGitRepo rejects with
\* tmpDir still empty and the route's catch sends the error
MkdtempFail ==
    /\ pc = "mkdtemp"
    /\ error' = Msg("mkdtemp failed", <<>>, 0)
    /\ SetChannel(RouteRejected(Channel, error'))
    /\ pc' = "done"
    /\ UNCHANGED << workspace, rmAttempts, rmFailed, cloneProc, gitLines, lastProgress, lastPhase,
                    repo, files, langIdx, allDependencies, fileIdx, fileData, steps,
                    rejected, cancelledAt, readAfterCancel, calls >>
    /\ UNCHANGED << modules, served, elsewhere >>

GitPhases == {"Receiving objects", "Resolving deltas"}

GitPercents == {50, 52, 100}

\* a handler of gitProcess.stderr 'data' that reports every line
CloneProgressEveryLine(phase, percent) ==
    /\ pc = "cloning"
    /\ gitLines < MaxSize
    /\ gitLines' = gitLines + 1
    /\ SetChannel(SendProgress(Channel,
           Msg("Cloning repository...",
               IF phase = "Resolving deltas" THEN <<"P", "r", "o", "c", "e", "s", "s", "i", "n", "g", " ", "f", "i", "l", "e", "s">>
               ELSE <<"D", "o", "w", "n", "l", "o", "a", "d", "i", "n", "g">>,
               percent)))
    /\ lastProgress' = percent
    /\ lastPhase' = phase
    /\ UNCHANGED << pc, workspace, rmAttempts, rmFailed, cloneProc, repo, files, langIdx,
                    allDependencies, fileIdx, fileData, error, steps, rejected,
                    cancelledAt, readAfterCancel, calls >>
    /\ UNCHANGED << modules, served, elsewhere >>

\* the handler of gitProcess.stderr 'data' for a line that carries a phase
\* and a percentage
CloneProgress(phase, percent) ==
    /\ pc = "cloning"
    /\ gitLines < MaxSize
    /\ gitLines' = gitLines + 1
    /\ IF percent - lastProgress >= 5 \/ percent = 100 \/ phase # lastPhase
       THEN /\ SetChannel(SendProgress(Channel,
                   Msg("Cloning repository...",
                       IF phase = "Resolving deltas" THEN <<"P", "r", "o", "c", "e", "s", "s", "i", "n", "g", " ", "f", "i", "l", "e", "s">>
                       ELSE <<"D", "o", "w", "n", "l", "o", "a", "d", "i", "n", "g">>,
                       percent)))
            /\ lastProgress' = percent
            /\ lastPhase' = phase
       ELSE UNCHANGED << frames, stream, isClosed, lastProgress, lastPhase >>
    /\ UNCHANGED << pc, workspace, rmAttempts, rmFailed, cloneProc, repo, files, langIdx,
                    allDependencies, fileIdx, fileData, error, steps, rejected,
                    cancelledAt, readAfterCancel, calls >>
    /\ UNCHANGED << modules, served, elsewhere >>

\* a 'close' handler that resolves whatever the exit code is
CloneCloseIgnoringCode(code) ==
    /\ pc = "cloning"
    /\ cloneProc' = IF code = 0 THEN "exited" ELSE "failed"
    /\ pc' = "ls-files"
    /\ UNCHANGED << frames, stream, isClosed, workspace, rmAttempts, rmFailed, gitLines,
                    lastProgress, lastPhase, repo, files, langIdx, allDependencies,
                    fileIdx, fileData, error, steps, rejected, cancelledAt,
                    readAfterCancel, calls >>
    /\ UNCHANGED << modules, served, elsewhere >>

\* the handler of gitProcess 'close': resolve on code 0, reject otherwise,
\* and then `git ls-files` is started or the catch block starts `rm -rf`
CloneClose(code) ==
    /\ pc = "cloning"
    /\ cloneProc' = IF code = 0 THEN "exited" ELSE "failed"
    /\ pc' = IF code = 0 THEN "ls-files" ELSE "cleanup"
    /\ error' = IF code = 0 THEN error ELSE Msg("Git clone failed with code", <<>>, code)
    /\ UNCHANGED << frames, stream, isClosed, workspace, rmAttempts, rmFailed, gitLines,
                    lastProgress, lastPhase, repo, files, langIdx, allDependencies,
                    fileIdx, fileData, steps, rejected, cancelledAt, readAfterCancel,
                    calls >>
    /\ UNCHANGED << modules, served, elsewhere >>

\* the handler of gitProcess 'error': git could not be spawned
CloneError ==
    /\ pc = "cloning"
    /\ cloneProc' = "failed"
    /\ pc' = "cleanup"
    /\ error' = Msg("spawn git failed", <<>>, 0)
    /\ UNCHANGED << frames, stream, isClosed, workspace, rmAttempts, rmFailed, gitLines,
                    lastProgress, lastPhase, repo, files, langIdx, allDependencies,
                    fileIdx, fileData, steps, rejected, cancelledAt, readAfterCancel,
                    calls >>
    /\ UNCHANGED << modules, served, elsewhere >>

\* `git ls-files` resolves with the paths the clone tracks; `git rev-parse`
\* is started
LsFilesOk ==
    /\ pc = "ls-files"
    /\ \E sel \in Selections(MaxSize - gitLines) :
           \E pick \in Picks(sel) : repo' = Repo(sel, pick)
    /\ steps' = steps \cup {"ls-files"}
    /\ pc' = "rev-parse"
    /\ UNCHANGED << frames, stream, isClosed, workspace, rmAttempts, rmFailed, cloneProc, gitLines,
                    lastProgress, lastPhase, files, langIdx, allDependencies, fileIdx,
                    fileData, error, rejected, cancelledAt, readAfterCancel, calls >>
    /\ UNCHANGED << modules, served, elsewhere >>

\* the files of the universe that a large clone may hold besides its further
\* files: the admitted TypeScript and Java files
LargeCore ==
    { i \in 1..Len(Universe) :
        /\ Admitted(Universe[i].path)
        /\ GetAnalyzer(Universe[i].path).name \in {"js", "java"} }

\* `git ls-files` resolves with the paths of a clone that tracks more source
\* files than MAX_FILES_FOR_DETAILED_ANALYSIS: files of LargeCore, each with
\* one of its healthy contents, and the further files
LsFilesLarge ==
    /\ pc = "ls-files"
    /\ \E sel \in Selections(MaxSize - gitLines) \ { {} } :
           \E pick \in Picks(sel) :
               /\ sel \subseteq LargeCore
               /\ \A i \in sel : pick[i] <= 2
               /\ repo' = LargeRepo(sel, pick)
    /\ steps' = steps \cup {"ls-files"}
    /\ pc' = "rev-parse"
    /\ UNCHANGED << frames, stream, isClosed, workspace, rmAttempts, rmFailed, cloneProc, gitLines,
                    lastProgress, lastPhase, files, langIdx, allDependencies, fileIdx,
                    fileData, error, rejected, cancelledAt, readAfterCancel, calls >>
    /\ UNCHANGED << modules, served, elsewhere >>

\* `git ls-files` rejects: the catch block starts `rm -rf`
LsFilesFail ==
    /\ pc = "ls-files"
    /\ steps' = steps \cup {"ls-files"}
    /\ error' = Msg("Command failed: git ls-files", <<>>, 0)
    /\ pc' = "cleanup"
    /\ UNCHANGED << frames, stream, isClosed, workspace, rmAttempts, rmFailed, cloneProc, gitLines,
                    lastProgress, lastPhase, repo, files, langIdx, allDependencies,
                    fileIdx, fileData, rejected, cancelledAt, readAfterCancel, calls >>
    /\ UNCHANGED << modules, served, elsewhere >>

\* `git rev-parse` resolves: the listing is filtered, "Found N files" is
\* sent, cloneAndAnalyze returns, analyzeGitRepo groups the files and starts
\* the first group's analyzeAll
RevParseOk ==
    /\ pc = "rev-parse"
    /\ steps' = steps \cup {"rev-parse"}
    /\ files' = FilterFiles(Tracked)
    /\ LET ch == SendProgress(Channel, Msg("Found files", <<>>, Len(files')))
           groups == GroupFiles(files', <<>>)
       IN  AfterGroup(ch, groups, 0, files')
    /\ UNCHANGED << workspace, rmAttempts, rmFailed, cloneProc, gitLines, lastProgress, lastPhase,
                    repo, allDependencies, fileData, error, rejected, cancelledAt,
                    readAfterCancel, calls >>
    /\ UNCHANGED << modules, served, elsewhere >>

\* `git rev-parse` rejects: the catch block starts `rm -rf`
RevParseFail ==
    /\ pc = "rev-parse"
    /\ steps' = steps \cup {"rev-parse"}
    /\ error' = Msg("Command failed: git rev-parse", <<>>, 0)
    /\ pc' = "cleanup"
    /\ UNCHANGED << frames, stream, isClosed, workspace, rmAttempts, rmFailed, cloneProc, gitLines,
                    lastProgress, lastPhase, repo, files, langIdx, allDependencies,
                    fileIdx, fileData, rejected, cancelledAt, readAfterCancel, calls >>
    /\ UNCHANGED << modules, served, elsewhere >>

\* the analyzeAll call of the current group resolves: its entries go into
\* allDependencies and the loop moves on
AnalyzeResolve ==
    /\ pc = "analyzing"
    /\ \E group \in { Groups[langIdx] } :
         \E out \in { IF AnalyzerOf(group).all
                       THEN AnalyzeAllIn(modules, group.k, group.v, TMP_DIR, Contents,
                                         TsconfigOf(Tracked, Contents))
                       ELSE [deps |-> <<>>, modules |-> modules] } :
           /\ allDependencies' = MergeDeps(allDependencies, out.deps)
           /\ modules' = out.modules
           /\ steps' = steps \cup {"analyzeAll"}
           /\ AfterGroup(Channel, Groups, langIdx, files)
    /\ UNCHANGED << workspace, rmAttempts, rmFailed, cloneProc, gitLines, lastProgress, lastPhase,
                    repo, files, fileData, error, rejected, cancelledAt, readAfterCancel,
                    calls >>
    /\ UNCHANGED << served, elsewhere >>

\* the analyzeAll call of the current group rejects. Only the branch for
\* more than MAX_FILES_FOR_DETAILED_ANALYSIS files has a catch; otherwise
\* the rejection leaves the try block of analyzeGitRepo through its finally
\* block. jsAnalyzer.analyzeAll catches everything itself and never rejects.
AnalyzeReject ==
    /\ pc = "analyzing"
    /\ AnalyzerOf(Groups[langIdx]).all
    /\ AnalyzerOf(Groups[langIdx]).name # "js"
    /\ rejected' = rejected \cup {AnalyzerOf(Groups[langIdx]).name}
    /\ steps' = steps \cup {"analyzeAll"}
    /\ IF TotalFiles(Groups) > MAX_FILES_FOR_DETAILED_ANALYSIS
       THEN /\ AfterGroup(Channel, Groups, langIdx, files)
            /\ error' = error
       ELSE /\ error' = Msg("analyzeAll rejected", <<>>, 0)
            /\ pc' = "finally"
            /\ UNCHANGED << frames, stream, isClosed, langIdx, fileIdx >>
    /\ UNCHANGED << workspace, rmAttempts, rmFailed, cloneProc, gitLines, lastProgress, lastPhase,
                    repo, files, allDependencies, fileData, cancelledAt,
                    readAfterCancel, calls >>
    /\ UNCHANGED << modules, served, elsewhere >>

\* one round of the aggregation loop: the file is read and its record is
\* stored; after the last file the function returns into its finally block
AggregateFile ==
    /\ pc = "aggregating"
    /\ LET file == files[fileIdx]
       IN  fileData' = MapSet(fileData, file,
                              FileRecord(file, Contents[file], allDependencies))
    /\ steps' = steps \cup {"read"}
    /\ readAfterCancel' = (readAfterCancel \/ cancelledAt # "never")
    /\ IF fileIdx < Len(files)
       THEN fileIdx' = fileIdx + 1 /\ pc' = pc
       ELSE fileIdx' = fileIdx /\ pc' = "finally"
    /\ UNCHANGED << frames, stream, isClosed, workspace, rmAttempts, rmFailed, cloneProc, gitLines,
                    lastProgress, lastPhase, repo, files, langIdx, allDependencies,
                    error, rejected, cancelledAt, calls >>
    /\ UNCHANGED << modules, served, elsewhere >>

\* the `rm -rf` of the finally block of analyzeGitRepo ends, with success or
\* not (a failure is logged and dropped); analyzeGitRepo settles and the
\* route sends the payload or the error
FinallyRm(removed) ==
    /\ pc = "finally"
    /\ rmAttempts' = rmAttempts + 1
    /\ rmFailed' = (rmFailed \/ ~removed)
    /\ workspace' = IF removed THEN "deleted" ELSE workspace
    /\ SetChannel(IF error = NoError
                  THEN RouteResolved(Channel, fileData, BRANCH)
                  ELSE RouteRejected(Channel, error))
    /\ pc' = "done"
    /\ UNCHANGED << cloneProc, gitLines, lastProgress, lastPhase, repo, files, langIdx,
                    allDependencies, fileIdx, fileData, error, steps, rejected,
                    cancelledAt, readAfterCancel, calls >>
    /\ UNCHANGED << modules, served, elsewhere >>

\* a catch block of cloneAndAnalyze that throws the error on without
\* running `rm -rf`
CleanupSkipped(removed) ==
    /\ pc = "cleanup"
    /\ SetChannel(RouteRejected(Channel, error))
    /\ pc' = "done"
    /\ UNCHANGED << workspace, rmAttempts, rmFailed, cloneProc, gitLines, lastProgress,
                    lastPhase, repo, files, langIdx, allDependencies, fileIdx, fileData,
                    error, steps, rejected, cancelledAt, readAfterCancel, calls >>
    /\ UNCHANGED << modules, served, elsewhere >>

\* the `rm -rf` of the catch block of cloneAndAnalyze ends, with success or
\* not; the error is thrown on, analyzeGitRepo (whose tmpDir is still empty)
\* rejects and the route sends the error
CleanupRm(removed) ==
    /\ pc = "cleanup"
    /\ rmAttempts' = rmAttempts + 1
    /\ rmFailed' = (rmFailed \/ ~removed)
    /\ workspace' = IF removed THEN "deleted" ELSE workspace
    /\ SetChannel(RouteRejected(Channel, error))
    /\ pc' = "done"
    /\ UNCHANGED << cloneProc, gitLines, lastProgress, lastPhase, repo, files, langIdx,
                    allDependencies, fileIdx, fileData, error, steps, rejected,
                    cancelledAt, readAfterCancel, calls >>
    /\ UNCHANGED << modules, served, elsewhere >>

\* the reader of the stream goes away: the stream is cancelled. The
\* ReadableStream is built with start() alone, so nothing of the run is told.
ReaderCancel ==
    /\ stream = "readable"
    /\ stream' = "cancelled"
    /\ cancelledAt' = pc
    /\ UNCHANGED << pc, frames, isClosed, workspace, rmAttempts, rmFailed, cloneProc, gitLines,
                    lastProgress, lastPhase, repo, files, langIdx, allDependencies,
                    fileIdx, fileData, error, steps, rejected, readAfterCancel, calls >>
    /\ UNCHANGED << modules, served, elsewhere >>

\* the pipeline with the reader attached from the start to the end
Next ==
    \/ MkdtempOk
    \/ MkdtempFail
    \/ \E phase \in GitPhases : \E percent \in GitPercents : CloneProgress(phase, percent)
    \/ \E code \in {0, 128} : CloneClose(code)
    \/ CloneError
    \/ LsFilesOk
    \/ LsFilesFail
    \/ RevParseOk
    \/ RevParseFail
    \/ AnalyzeResolve
    \/ AggregateFile
    \/ \E removed \in BOOLEAN : FinallyRm(removed)
    \/ \E removed \in BOOLEAN : CleanupRm(removed)

Spec == Init /\ [][Next]_vars

\* the pipeline with a reader that may go away at any time
NextCancel == Next \/ ReaderCancel

SpecCancel == Init /\ [][NextCancel]_vars

\* the pipeline in which the analyzeAll of a language may fail as a whole
NextReject == Next \/ AnalyzeReject

SpecReject == Init /\ [][NextReject]_vars

\* the pipeline on a clone of more than MAX_FILES_FOR_DETAILED_ANALYSIS
\* source files, when git prints no progress and every command succeeds
NextLarge ==
    \/ MkdtempOk
    \/ \E code \in {0} : CloneClose(code)
    \/ LsFilesLarge
    \/ RevParseOk
    \/ AnalyzeResolve
    \/ AnalyzeReject
    \/ AggregateFile
    \/ \E removed \in {TRUE} : FinallyRm(removed)

SpecLarge == Init /\ [][NextLarge]_vars

(***************************************************************************)
(* The three send functions called in any order, on a stream whose reader  *)
(* may go away.                                                            *)
(***************************************************************************)

MaxCalls == 4

ProgressTexts == {"Cloning repository...", "Compiling analysis..."}

ErrorTexts == {"Git clone failed with code", "mkdtemp failed"}

CallSendProgress ==
    /\ calls < MaxCalls
    /\ calls' = calls + 1
    /\ \E text \in ProgressTexts : SetChannel(SendProgress(Channel, Msg(text, <<>>, 0)))
    /\ UNCHANGED << pc, workspace, rmAttempts, rmFailed, cloneProc, gitLines, lastProgress,
                    lastPhase, repo, files, langIdx, allDependencies, fileIdx, fileData,
                    error, steps, rejected, cancelledAt, readAfterCancel >>
    /\ UNCHANGED << modules, served, elsewhere >>

CallSendError ==
    /\ calls < MaxCalls
    /\ calls' = calls + 1
    /\ \E text \in ErrorTexts : SetChannel(SendError(Channel, Msg(text, <<>>, 0)))
    /\ UNCHANGED << pc, workspace, rmAttempts, rmFailed, cloneProc, gitLines, lastProgress,
                    lastPhase, repo, files, langIdx, allDependencies, fileIdx, fileData,
                    error, steps, rejected, cancelledAt, readAfterCancel >>
    /\ UNCHANGED << modules, served, elsewhere >>

CallSendComplete ==
    /\ calls < MaxCalls
    /\ calls' = calls + 1
    /\ \E branch \in {"main", "dev"} :
           SetChannel(SendComplete(Channel, DsmData(<<>>, branch)))
    /\ UNCHANGED << pc, workspace, rmAttempts, rmFailed, cloneProc, gitLines, lastProgress,
                    lastPhase, repo, files, langIdx, allDependencies, fileIdx, fileData,
                    error, steps, rejected, cancelledAt, readAfterCancel >>
    /\ UNCHANGED << modules, served, elsewhere >>

NextChannel == CallSendProgress \/ CallSendError \/ CallSendComplete \/ ReaderCancel

SpecChannel == Init /\ [][NextChannel]_vars

(***************************************************************************)
(* What the stream and the payload show                                    *)
(***************************************************************************)

\* the positions of the terminal frames
TerminalFrames == { i \in 1..Len(frames) : frames[i].type \in {"complete", "error"} }

CompleteFrames == { i \in 1..Len(frames) : frames[i].type = "complete" }

ErrorFrames == { i \in 1..Len(frames) : frames[i].type = "error" }

\* the run has ended: analyzeGitRepo has settled and start() has returned
RunEnded == pc = "done"

\* the payloads the stream carries
Payloads == { frames[i].data : i \in CompleteFrames }

\* the keys of the files mapping of a payload
KeysOf(payload) == { payload.files[i].k : i \in 1..Len(payload.files) }

\* the dependency entries of a payload, each with the file it belongs to
EdgesOf(payload) ==
    UNION { { [from |-> payload.files[i].k,
               to |-> payload.files[i].v.dependencies[j].fileName,
               weight |-> payload.files[i].v.dependencies[j].dependencies] :
                  j \in 1..Len(payload.files[i].v.dependencies) } :
            i \in 1..Len(payload.files) }

\* C1: in the payload of a run (one run at a time), every dependency entry
\* of every file names a target that is a key of the payload's files mapping
\* and has an integer weight of at least 1.
EdgesNameKeysWithPositiveWeight ==
    \A payload \in Payloads :
        \A e \in EdgesOf(payload) :
            /\ e.to \in KeysOf(payload)
            /\ e.weight \in Nat
            /\ e.weight >= 1

\* a run has ended with a payload that has edges, one of them of weight 2
\* or more
PayloadWithEdges ==
    /\ RunEnded
    /\ \E payload \in Payloads :
           /\ EdgesOf(payload) # {}
           /\ \E e \in EdgesOf(payload) : e.weight >= 2

\* C2: no analyzer's result has an edge from a file to itself (stated on
\* allDependencies, into which every analyzer's result is copied as it is).
NoSelfEdges ==
    \A i \in 1..Len(allDependencies) :
        \A j \in 1..Len(allDependencies[i].v) :
            allDependencies[i].v[j].k # allDependencies[i].k

\* a file importing itself in a run that has ended
SelfImportAnalysed ==
    /\ RunEnded
    /\ \E i \in 1..Len(allDependencies) : MapHas(allDependencies[i].v, allDependencies[i].k)

\* analyzeGitRepo has settled after the workspace was created
SettledWithWorkspace == RunEnded /\ workspace # "none"

RunEndsWithTerminalFrame == RunEnded => TerminalFrames # {}

\* C5: at most one terminal frame is ever enqueued, the stream is closed as
\* soon as it is, and no frame of any type is enqueued after it, in whatever
\* order sendProgress, sendComplete and sendError are called.
OneTerminalFrameClosesStream ==
    /\ Cardinality(TerminalFrames) <= 1
    /\ TerminalFrames # {} =>
          /\ TerminalFrames = {Len(frames)}
          /\ stream = "closed"
          /\ isClosed

\* send functions have been called after a terminal frame that followed
\* progress frames
CallsAfterTerminalFrame ==
    /\ TerminalFrames # {}
    /\ Len(frames) >= 2
    /\ calls >= Len(frames) + 2

\* the clone subprocess has ended with a non-zero exit code or could not be
\* spawned
CloneFailed == cloneProc = "failed"

\* C6: after a failed clone no file listing, analysis or aggregation step
\* runs, the error reaches the stream only after `rm -rf` of the workspace
\* has been run, and the run ends with an `error` frame and no `complete`
\* frame.
FailedCloneStopsRun ==
    CloneFailed =>
        /\ steps = {}
        /\ rmAttempts = 0 => ErrorFrames = {}
        /\ RunEnded => rmAttempts = 1 /\ ErrorFrames # {} /\ CompleteFrames = {}

\* a run has ended after a clone that failed when git had printed progress
FailedCloneRunEnded == CloneFailed /\ RunEnded /\ gitLines > 0 /\ ErrorFrames # {}

\* C7: once the reader has gone away, the clone subprocess is not left
\* running, no further file is read, and the run ends with the workspace
\* removed and a terminal error on the stream.
CancelStopsRun ==
    cancelledAt # "never" =>
        /\ cancelledAt = "cloning" => cloneProc # "running"
        /\ ~readAfterCancel
        /\ RunEnded => ErrorFrames # {}

\* the reader has gone away while git was cloning and the run has gone on
\* to read files
ReadAfterReaderLeft == cancelledAt = "cloning" /\ readAfterCancel /\ RunEnded

(***************************************************************************)
(* The records a run produces, as a function of the repository             *)
(***************************************************************************)

RECURSIVE AnalyzeGroupsFrom(_, _, _, _, _)
\* the loop over filesByAnalyzer.entries() when every analyzeAll resolves
AnalyzeGroupsFrom(groups, contents, tsconfig, i, acc) ==
    IF i > Len(groups) THEN acc
    ELSE AnalyzeGroupsFrom(groups, contents, tsconfig, i + 1,
             MergeDeps(acc, IF AnalyzerOf(groups[i]).all
                            THEN AnalyzeAll(groups[i].k, groups[i].v, contents, tsconfig)
                            ELSE <<>>))

\* the files mapping analyzeGitRepo resolves with
RecordsOf(tracked, contents) ==
    LET fs == FilterFiles(tracked)
        allDeps == AnalyzeGroupsFrom(GroupFiles(fs, <<>>), contents,
                                     TsconfigOf(tracked, contents), 1, <<>>)
    IN  [i \in 1..Len(fs) |->
            [k |-> fs[i], v |-> FileRecord(fs[i], contents[fs[i]], allDeps)]]

\* the content a damaged file would have had
HealContent(c) ==
    [c EXCEPT !.readable = TRUE, !.strictParse = TRUE, !.looseParse = TRUE]

\* the repository with every damaged file healed
HealedContents == [p \in DOMAIN Contents |-> HealContent(Contents[p])]

\* the tracked files that cannot be read or parsed
DamagedFiles == { p \in DOMAIN Contents : Contents[p] # HealContent(Contents[p]) }

\* the run has gone through the aggregation of a repository in which
\* reading or parsing fails for exactly one file, an admitted one
OneFileFailed ==
    /\ RunEnded
    /\ "read" \in steps
    /\ Cardinality(DamagedFiles) = 1
    /\ \A p \in DamagedFiles : SeqIncludes(files, p)

FailedFile == CHOOSE p \in DamagedFiles : TRUE

\* the record of a file in the payload the stream carries
RecordOf(p) == MapGet((CHOOSE payload \in Payloads : TRUE).files, p, NULL)

\* the record the file would have had without the failure
HealedRecordOf(p) == MapGet(RecordsOf(Tracked, HealedContents), p, NULL)

\* a dependency list without its entries for one target
WithoutTarget(deps, target) == SelectSeq(deps, LAMBDA d : d.fileName # target)

RejectedLanguageStillCompletes ==
    RunEnded /\ rejected # {} => CompleteFrames # {}

\* a run has ended after the analyzeAll call of a language rejected in a
\* repository with files of another language
LanguageRejectedRunEnded ==
    RunEnded /\ rejected # {} /\ Len(Groups) >= 2 /\ ErrorFrames # {}

\* item `a` lies beneath the directory item `b`
IsBeneath(a, b) == StartsWith(a.path, b.path \o SLASH)

\* the paths of the non-directory items, in order
LeafPaths(items) ==
    LET leaves == SelectSeq(items, LAMBDA it : ~it.isDirectory)
    IN  [i \in 1..Len(leaves) |-> leaves[i].path]

\* the items are a pre-order traversal of a tree: every item that is not at
\* the top has its directory as an item before it, every item with items
\* beneath it is a directory, and the items beneath a directory follow it
\* without a gap
IsPreOrder(items) ==
    /\ \A i \in 1..Len(items) :
           Len(Parts(items[i].path)) > 1 =>
               \E j \in 1..(i - 1) :
                   items[j].isDirectory /\ items[j].path = DirName(items[i].path)
    /\ \A i, k \in 1..Len(items) :
           IsBeneath(items[k], items[i]) =>
               /\ items[i].isDirectory
               /\ i < k
               /\ \A j \in (i + 1)..k : IsBeneath(items[j], items[i])
    /\ \A i, j \in 1..Len(items) : items[i].path = items[j].path => i = j

\* C10: the display items of a payload are a pre-order traversal of the
\* directory tree of file_list in which every directory item precedes all
\* items beneath it, the non-directory items are exactly the paths of
\* file_list, each once, and file_list has the elements of the keys of files.
DisplayItemsArePreOrderOfFileList ==
    \A payload \in Payloads :
        /\ IsPreOrder(payload.displayItems)
        /\ Range(LeafPaths(payload.displayItems)) = Range(payload.fileList)
        /\ Len(LeafPaths(payload.displayItems)) = Len(payload.fileList)
        /\ \A i, j \in 1..Len(payload.fileList) :
               payload.fileList[i] = payload.fileList[j] => i = j
        /\ Range(payload.fileList) = KeysOf(payload)
        /\ \A i \in 1..Len(payload.displayItems) :
               payload.displayItems[i].isDirectory =>
                   \E k \in 1..Len(payload.displayItems) :
                       IsBeneath(payload.displayItems[k], payload.displayItems[i])

\* a payload with a file at the top, a directory and a file beneath it
PayloadWithDirectory ==
    /\ RunEnded
    /\ \E payload \in Payloads :
           /\ Len(payload.fileList) >= 2
           /\ \E i, j \in 1..Len(payload.displayItems) :
                  /\ payload.displayItems[i].isDirectory
                  /\ ~payload.displayItems[j].isDirectory
                  /\ payload.displayItems[j].indent = 0

(***************************************************************************)
(* Outline numbers and file indices of the display items                   *)
(***************************************************************************)

\* the positions before i of the items in the same directory as item i
SiblingsBefore(items, i) ==
    { j \in 1..(i - 1) : DirName(items[j].path) = DirName(items[i].path) }

\* every item has its depth as indent, follows its earlier siblings in
\* localeCompare order, and has the id of its directory followed by its
\* number among its siblings (only that number at the top)
OutlineNumbered(items) ==
    \A i \in 1..Len(items) :
        LET it == items[i]
            before == SiblingsBefore(items, i)
            k == Cardinality(before) + 1
        IN  /\ it.indent = Len(Parts(it.path)) - 1
            /\ \A j \in before : LocaleCompare(items[j].displayName, it.displayName) <= 0
            /\ IF it.indent = 0
               THEN it.id = Digits(k)
               ELSE \E j \in 1..(i - 1) :
                        /\ items[j].path = DirName(it.path)
                        /\ it.id = items[j].id \o DOT \o Digits(k)

ExampleFileList == << <<"a", "/", "x", ".", "t", "s">>, <<"a", "/", "y", ".", "t", "s">>, <<"b", "/", "z", ".", "t", "s">> >>

\* the ids buildDisplayItems gives the items of the example
ExampleIds ==
    LET ex == BuildDisplayItems(ExampleFileList)
    IN  [i \in 1..Len(ex) |-> ex[i].id]

\* C11: buildDisplayItems gives the k-th child of the root, in sorted sibling
\* order, the id "k" and the k-th child of a directory with id P the id
\* "P.k", and every item an indent equal to its depth below the root; for
\* a/x.ts, a/y.ts, b/z.ts the ids are 1, 1.1, 1.2, 2, 2.1.
IdsAreDottedDecimals ==
    /\ \A payload \in Payloads : OutlineNumbered(payload.displayItems)
    /\ ExampleIds = << <<"1">>, <<"1", ".", "1">>, <<"1", ".", "2">>, <<"2">>, <<"2", ".", "1">> >>

\* a payload whose second top-level item is a directory with a file in it
PayloadWithNestedId ==
    /\ RunEnded
    /\ \E payload \in Payloads :
           \E i \in 1..Len(payload.displayItems) :
               /\ payload.displayItems[i].id = <<"2", ".", "1">>
               /\ payload.displayItems[i].indent = 1

\* the (0-based) positions in fileList of the files an item covers: the file
\* itself, or the files anywhere beneath the directory
CoveredPositions(fileList, item) ==
    { i - 1 : i \in { j \in 1..Len(fileList) :
                        IF item.isDirectory
                        THEN StartsWith(fileList[j], item.path \o SLASH)
                        ELSE fileList[j] = item.path } }

\* C12: for every display item of a payload, fileIndices holds exactly the
\* positions in file_list of the files the item covers, each once: the
\* position of the file itself for a file item, the positions of all files
\* beneath it for a directory item.
FileIndicesAreCoveredPositions ==
    \A payload \in Payloads :
        \A i \in 1..Len(payload.displayItems) :
            LET item == payload.displayItems[i]
            IN  /\ Range(item.fileIndices) = CoveredPositions(payload.fileList, item)
                /\ Len(item.fileIndices) = Cardinality(Range(item.fileIndices))
                /\ ~item.isDirectory => Len(item.fileIndices) = 1

\* a payload with a directory that covers two files
PayloadWithSharedDirectory ==
    /\ RunEnded
    /\ \E payload \in Payloads :
           \E i \in 1..Len(payload.displayItems) :
               /\ payload.displayItems[i].isDirectory
               /\ payload.displayItems[i].fileIndices = << 0, 1 >>

(***************************************************************************)
(* Edge weights against the import clauses of the source                   *)
(***************************************************************************)

\* the files of the group a file is analysed in
GroupOf(file) == MapGet(Groups, GetAnalyzer(file).name, <<>>)

\* the file one import clause of `file` resolves to, or null (JavaScript,
\* Java and C/C++, where a clause resolves on its own)
ClauseTarget(file, clause) ==
    CASE GetAnalyzer(file).name = "js" ->
             ResolveImportToFile(clause.spec, file, TMP_DIR, GroupOf(file),
                                 LoadPathAliases(TsconfigOf(Tracked, Contents)))
      [] GetAnalyzer(file).name = "java" ->
             JavaImportToFilePath(clause.spec, GroupOf(file))
      [] GetAnalyzer(file).name = "cpp" ->
             IF clause.kind = "angle" /\ IsSystemHeader(clause.spec) THEN NULL
             ELSE ResolveIncludePath(file, clause.spec, GroupOf(file))
      [] OTHER -> NULL

\* what one clause contributes: the number of names a JavaScript import
\* lists (1 for a side-effect import), 1 for an import or include elsewhere
ClauseWeight(file, clause) ==
    IF GetAnalyzer(file).name = "js" /\ Len(clause.names) > 0 THEN Len(clause.names) ELSE 1

RECURSIVE SumOfClauses(_, _, _)
\* the contributions of the clauses of `file` that resolve to `target`
SumOfClauses(file, clauses, target) ==
    IF clauses = <<>> THEN 0
    ELSE (IF ClauseTarget(file, Head(clauses)) = target
          THEN ClauseWeight(file, Head(clauses)) ELSE 0)
         + SumOfClauses(file, Tail(clauses), target)

\* C13: when several import clauses of one source file resolve to the same
\* target file, the weight of the edge is the sum of the contributions of
\* all those clauses (stated for JavaScript/TypeScript, Java and C/C++, on
\* the files that can be read and parsed).
WeightsSumOverClauses ==
    \A payload \in Payloads :
        \A i \in 1..Len(payload.files) :
            LET f == payload.files[i].k
                deps == payload.files[i].v.dependencies
            IN  /\ GetAnalyzer(f).name \in {"js", "java", "cpp"}
                /\ Contents[f].readable
                /\ Contents[f].looseParse
                => \A j \in 1..Len(deps) :
                       deps[j].dependencies
                           = SumOfClauses(f, Contents[f].imports, deps[j].fileName)

\* a run has ended on a repository in which two import clauses of a file
\* with different texts resolve to one target
TwoClausesOneTarget ==
    /\ RunEnded
    /\ \E payload \in Payloads :
           \E i \in 1..Len(payload.files) :
               LET f == payload.files[i].k
                   cl == Contents[f].imports
               IN  /\ Contents[f].readable
                   /\ payload.files[i].v.dependencies # <<>>
                   /\ \E a, b \in 1..Len(cl) :
                          /\ cl[a].spec # cl[b].spec
                          /\ ClauseTarget(f, cl[a]) # NULL
                          /\ ClauseTarget(f, cl[a]) # f
                          /\ ClauseTarget(f, cl[a]) = ClauseTarget(f, cl[b])

\* the files a source reaches with its one package-level import (a Python
\* `from M import *`, a Go import, a C# using), the importer left out; no
\* file when the source has another import besides
PackageTargets(f) ==
    LET c == Contents[f]
        a == GetAnalyzer(f).name
        py == PythonExtractImports(c)
    IN  CASE a = "python" /\ py.imports = <<>> /\ Len(py.fromImports) = 1
                 /\ py.fromImports[1].v = << STAR >> ->
                 PythonImportToFilePaths(BuildPythonModuleCache(<<>>, GroupOf(f), Contents),
                                         STAR, py.fromImports[1].k, f)
          [] a = "go" /\ Len(GoExtractImports(c)) = 1 ->
                 GoImportToFilePaths(BuildGoPackageCache(<<>>, GroupOf(f), Contents),
                                     GoExtractImports(c)[1], f)
          [] a = "csharp" /\ Len(CSharpUsings(c)) = 1 ->
                 SelectSeq(CsharpUsingToFilePaths(
                               BuildCSharpNamespaceCache(<<>>, GroupOf(f), Contents),
                               CSharpUsings(c)[1]),
                           LAMBDA t : t # f)
          [] OTHER -> <<>>

\* the symbols a file exports: what the index pass extracts from a Python or
\* Go file, the class a C# file is named after
ExportedSymbols(t) ==
    IF GetAnalyzer(t).name = "csharp" THEN << BaseNameExt(t, <<".", "c", "s">>) >>
    ELSE SetAddAll(<<>>, Contents[t].symbols)

\* the whole-word occurrences of a target's exported symbols in the
\* importer's source, or 1 when there is none
PackageWeight(f, t) ==
    LET n == GoUsageCount(Contents[f], ExportedSymbols(t))
    IN  IF n > 0 THEN n ELSE 1

\* C14: for a wildcard or package-level import every file of the named
\* package other than the importer is a target, and the weight of each such
\* edge is the number of whole-word occurrences of the target's exported
\* symbols in the importer's source, or 1 when there is none.
PackageImportsWeighBySymbolUse ==
    \A payload \in Payloads :
        \A i \in 1..Len(payload.files) :
            LET f == payload.files[i].k
                deps == payload.files[i].v.dependencies
            IN  Contents[f].readable =>
                    \A k \in 1..Len(PackageTargets(f)) :
                        \E j \in 1..Len(deps) :
                            /\ deps[j].fileName = PackageTargets(f)[k]
                            /\ deps[j].dependencies = PackageWeight(f, PackageTargets(f)[k])

\* a run has ended on a repository in which a Python source imports a module
\* with `*` and uses a symbol of the module three times
WildcardImportWithUses ==
    /\ RunEnded
    /\ Payloads # {}
    /\ \E f \in DOMAIN Contents :
           /\ GetAnalyzer(f).name = "python"
           /\ Contents[f].readable
           /\ \E k \in 1..Len(PackageTargets(f)) :
                  PackageWeight(f, PackageTargets(f)[k]) = 3

(***************************************************************************)
(* Admission of the tracked files                                          *)
(***************************************************************************)

\* the code-extension allow-list as the specification gives it
AllowListOfSpec ==
    << <<".", "t", "s">>, <<".", "t", "s", "x">>, <<".", "j", "s">>, <<".", "j", "s", "x">>, <<".", "m", "j", "s">>, <<".", "c", "j", "s">>, <<".", "v", "u", "e">>, <<".", "p", "y">>, <<".", "c", "p", "p">>,
       <<".", "c", "c">>, <<".", "c", "x", "x">>, <<".", "c">>, <<".", "h">>, <<".", "h", "p", "p">>, <<".", "h", "x", "x">>, <<".", "h", "h">>, <<".", "j", "a", "v", "a">>, <<".", "c", "s">>, <<".", "g", "o">>,
       <<".", "r", "s">>, <<".", "r", "b">>, <<".", "p", "h", "p">>, <<".", "s", "w", "i", "f", "t">>, <<".", "k", "t">>, <<".", "s", "c", "a", "l", "a">> >>

\* the excluded-directory deny-list as the specification gives it
DenyListOfSpec ==
    << <<"n", "o", "d", "e", "_", "m", "o", "d", "u", "l", "e", "s">>, <<"b", "o", "w", "e", "r", "_", "c", "o", "m", "p", "o", "n", "e", "n", "t", "s">>, <<"v", "e", "n", "d", "o", "r">>, <<"d", "i", "s", "t">>, <<"b", "u", "i", "l", "d">>, <<".", "g", "i", "t">>,
       <<"c", "o", "v", "e", "r", "a", "g", "e">>, <<"_", "_", "p", "y", "c", "a", "c", "h", "e", "_", "_">>, <<".", "v", "e", "n", "v">>, <<"v", "e", "n", "v">> >>

\* the extension of a path: its base name from the last "." on
ExtensionOf(p) ==
    LET b == BaseName(p)
        dots == { i \in 1..Len(b) : b[i] = "." }
    IN  IF dots = {} THEN <<>>
        ELSE Drop(b, (CHOOSE i \in dots : \A j \in dots : j <= i) - 1)

\* admitted by the rule of the specification
AdmittedBySpec(p) ==
    /\ SeqIncludes(AllowListOfSpec, ExtensionOf(p))
    /\ \A i \in 1..Len(Parts(p)) : ~SeqIncludes(DenyListOfSpec, Parts(p)[i])

\* cloneAndAnalyze has filtered the listing
FilesListed == \E i \in 1..Len(frames) : frames[i].message.text = "Found files"

\* C15: a tracked file is admitted to the analysis if and only if its
\* extension is in the code-extension allow-list of the specification and
\* none of its path segments is a name of the deny-list.
AdmittedIffAllowedAndNotDenied ==
    FilesListed =>
        \A i \in 1..Len(Tracked) :
            SeqIncludes(files, Tracked[i]) <=> AdmittedBySpec(Tracked[i])

\* the listing of a repository with a file under a directory whose name
\* only ends in a deny-list name has been filtered
ListedWithLookalikeDirectory ==
    /\ FilesListed
    /\ \E i \in 1..Len(Tracked) :
           /\ AdmittedBySpec(Tracked[i])
           /\ \E d \in 1..Len(EXCLUDED_DIRS) : Includes(Tracked[i], EXCLUDED_DIRS[d])

\* the listing has been filtered and no tracked file was admitted
NothingAdmitted == FilesListed /\ files = <<>>

\* C16: when no tracked file is admitted the run does not fail: no analyzer
\* is invoked and no file is read, and the run ends with a `complete` frame
\* whose payload has an empty files mapping, no display items and an empty
\* file_list.
EmptyRepositoryCompletes ==
    NothingAdmitted =>
        /\ "analyzeAll" \notin steps
        /\ "read" \notin steps
        /\ langIdx = 0
        /\ RunEnded =>
               /\ ErrorFrames = {}
               /\ Cardinality(CompleteFrames) = 1
               /\ \A payload \in Payloads :
                      /\ payload.files = <<>>
                      /\ payload.displayItems = <<>>
                      /\ payload.fileList = <<>>

\* a run has ended on a repository that tracks files, none of them admitted
NothingAdmittedRunEnded == NothingAdmitted /\ RunEnded /\ Tracked # <<>>

\* the phase a frame belongs to: 0 "Cloning repository... 0%", 1 progress of
\* the clone, 2 "Found N files", 3 "Analyzing ... files...", 4 "Compiling
\* analysis...", 5 "Building file tree...", 6 a terminal frame
PhaseOf(frame) ==
    IF frame.type # "progress" THEN 6
    ELSE IF frame.message.text = "Cloning repository..."
         THEN (IF frame.message.s = <<>> THEN 0 ELSE 1)
    ELSE IF frame.message.text = "Found files" THEN 2
    ELSE IF frame.message.text = "Analyzing files..." THEN 3
    ELSE IF frame.message.text = "Compiling analysis..." THEN 4
    ELSE IF frame.message.text = "Building file tree..." THEN 5
    ELSE 7

\* the phases of which a run sends one frame at most
OncePhases == {0, 2, 4, 5, 6}

\* C17: the frames of a run come in phase order: "Cloning repository... 0%"
\* is the first frame, progress of the clone comes only before "Found N
\* files", every "Analyzing ... files..." comes after "Found N files" and
\* before "Compiling analysis...", "Building file tree..." comes after
\* "Compiling analysis..." and is the last progress frame, and `complete`
\* comes after all of them.
FramesInPhaseOrder ==
    /\ frames # <<>> => PhaseOf(frames[1]) \in {0, 6}
    /\ \A i \in 1..Len(frames) : PhaseOf(frames[i]) # 7
    /\ \A i, j \in 1..Len(frames) :
           i < j => /\ PhaseOf(frames[i]) <= PhaseOf(frames[j])
                    /\ PhaseOf(frames[i]) \in OncePhases
                           => PhaseOf(frames[i]) < PhaseOf(frames[j])
    /\ \A i \in 1..Len(frames) :
           frames[i].type = "complete" =>
               /\ i = Len(frames)
               /\ {0, 2, 4, 5, 6} \subseteq { PhaseOf(frames[j]) : j \in 1..i }
    /\ \A i \in 1..Len(frames) :
           PhaseOf(frames[i]) = 3 =>
               \E j \in 1..(i - 1) : PhaseOf(frames[j]) = 2

\* a run has sent `complete` after frames of every phase
CompleteAfterEveryPhase ==
    /\ CompleteFrames # {}
    /\ { PhaseOf(frames[i]) : i \in 1..Len(frames) } = 0..6

(***************************************************************************)
(* One server process serving one request after the other. The analyzers'  *)
(* module-level Maps live as long as the process; every run gets a         *)
(* temporary directory of its own from fs.mkdtemp. A run is taken as one   *)
(* step: it starts when the run before it has ended.                       *)
(***************************************************************************)

RECURSIVE AnalyzeGroupsIn(_, _, _, _, _, _, _)
\* the rest of the loop once the analyzeAll of group i has left `out`
AnalyzeGroupsAfter(out, groups, repoPath, contents, tsconfig, i, acc) ==
    AnalyzeGroupsIn(out.modules, groups, repoPath, contents, tsconfig, i + 1,
                    MergeDeps(acc, out.deps))

\* the loop over filesByAnalyzer.entries() when every analyzeAll resolves,
\* in a process whose module-level Maps are `mods`
AnalyzeGroupsIn(mods, groups, repoPath, contents, tsconfig, i, acc) ==
    IF i > Len(groups) THEN [deps |-> acc, modules |-> mods]
    ELSE AnalyzeGroupsAfter(IF AnalyzerOf(groups[i]).all
                            THEN AnalyzeAllIn(mods, groups[i].k, groups[i].v, repoPath,
                                              contents, tsconfig)
                            ELSE [deps |-> <<>>, modules |-> mods],
                            groups, repoPath, contents, tsconfig, i, acc)

\* the aggregation loop over the admitted files `fs` once the loop over the
\* groups has left `out`
AggregateIn(out, tmpDir, fs, contents) ==
    [files |-> [i \in 1..Len(fs) |->
                   [k |-> fs[i],
                    v |-> FileRecordIn(tmpDir, fs[i], contents[fs[i]], out.deps)]],
     modules |-> out.modules]

\* analyzeGitRepo on a clone in tmpDir, in a process whose module-level Maps
\* are `mods`: the files mapping it resolves with and the Maps it leaves
RunIn(mods, tmpDir, tracked, contents) ==
    AggregateIn(AnalyzeGroupsIn(mods, GroupFiles(FilterFiles(tracked), <<>>), tmpDir,
                                contents, TsconfigOf(tracked, contents), 1, <<>>),
                tmpDir, FilterFiles(tracked), contents)

\* the most runs a process serves
MaxRuns == 2

\* the repositories a process is asked to analyse
ProcessRepos ==
    UNION { { Repo(sel, pick) : pick \in Picks(sel) } : sel \in Selections(MaxSize - 1) }

\* GET for repository r, from the request to the end of the stream, when the
\* clone succeeds in tmpDir and every step after it resolves
ServeRequest(r, tmpDir) ==
    /\ Len(served) < MaxRuns
    /\ \E out \in { RunIn(modules, tmpDir, TrackedOf(r), ContentsOf(r)) } :
           /\ modules' = out.modules
           /\ served' = Append(served, [repo |-> r, tmpDir |-> tmpDir,
                                        payload |-> DsmData(out.files, BRANCH)])
    /\ UNCHANGED << pc, frames, stream, isClosed, workspace, rmAttempts, rmFailed,
                    cloneProc, gitLines, lastProgress, lastPhase, repo, files, langIdx,
                    allDependencies, fileIdx, fileData, error, steps, rejected,
                    cancelledAt, readAfterCancel, calls >>
    /\ UNCHANGED elsewhere

NextProcess == \E r \in ProcessRepos : \E tmpDir \in TmpDirs : ServeRequest(r, tmpDir)

SpecProcess == Init /\ [][NextProcess]_vars

\* the payload of a run as the stream of a single run carries it
SingleRunPayloadIsRunIn ==
    \A payload \in Payloads :
        payload = DsmData(RunIn(FreshModules, TMP_DIR, Tracked, Contents).files, BRANCH)

\* every run of the process has the payload a process that has analysed
\* nothing before gives for the same repository and the same directory
PayloadsForgetEarlierRuns ==
    \A i \in 1..Len(served) :
        served[i].payload =
            DsmData(RunIn(FreshModules, served[i].tmpDir, TrackedOf(served[i].repo),
                          ContentsOf(served[i].repo)).files, BRANCH)

\* C18: two runs of one server process on the same file set and the same
\* file contents have the same payload (files, dependency lists and their
\* order, display items, file_list), whatever the process analysed before
\* or between them.
SameRepositorySamePayload ==
    \A i, j \in 1..Len(served) :
        served[i].repo = served[j].repo => served[i].payload = served[j].payload

\* a process has analysed the same Python file twice
SamePythonFileTwice ==
    /\ Len(served) = 2
    /\ served[1].repo = served[2].repo
    /\ \E p \in DOMAIN ContentsOf(served[1].repo) : ExtName(p) = <<".", "p", "y">>

\* totalFiles > MAX_FILES_FOR_DETAILED_ANALYSIS: skipDetailedAnalysis
SkipDetailedAnalysis ==
    FilesListed /\ TotalFiles(Groups) > MAX_FILES_FOR_DETAILED_ANALYSIS

\* C19: when more than 100 admitted files have an analyzer, every edge of
\* the payload has weight exactly 1.
LargeRepositoryHasUnitWeights ==
    SkipDetailedAnalysis =>
        \A payload \in Payloads : \A e \in EdgesOf(payload) : e.weight = 1

\* a run on more than 100 files has ended with a payload that has an edge
LargeRepositoryWithEdge ==
    /\ SkipDetailedAnalysis
    /\ RunEnded
    /\ \E payload \in Payloads : EdgesOf(payload) # {}

\* the code units of the characters paths are made of, as far as their order
\* goes: a < b of strings compares code unit by code unit
CodeUnits ==
    << "-", ".", "/", "0", "1", "2", "3", "4", "5", "6", "7", "8", "9", "@" >>
    \o UpperCase \o << "_" >> \o SubSeq(Collation, 14, Len(Collation))

CodeUnitOf(c) == CHOOSE i \in 1..Len(CodeUnits) : CodeUnits[i] = c

RECURSIVE StringLess(_, _)
\* a < b, for strings
StringLess(a, b) ==
    IF b = <<>> THEN FALSE
    ELSE IF a = <<>> THEN TRUE
    ELSE IF Head(a) # Head(b) THEN CodeUnitOf(Head(a)) < CodeUnitOf(Head(b))
    ELSE StringLess(Tail(a), Tail(b))

\* the dependencies array is in ascending order of fileName
Ascending(dependencies) ==
    \A i \in 1..(Len(dependencies) - 1) :
        StringLess(dependencies[i].fileName, dependencies[i + 1].fileName)

\* C20: in every payload the dependencies array of every file is sorted in
\* ascending order of fileName, whatever the order in which the analyzer
\* discovered the imports.
DependenciesSortedByFileName ==
    \A payload \in Payloads :
        \A i \in 1..Len(payload.files) : Ascending(payload.files[i].v.dependencies)

\* a payload has a file with more than one dependency
PayloadWithTwoDependencies ==
    \E payload \in Payloads :
        \E i \in 1..Len(payload.files) : Len(payload.files[i].v.dependencies) > 1

(***************************************************************************)
(* Buckets and edges                                                       *)
(***************************************************************************)

\* the positions in filesByAnalyzer of the buckets a file was pushed to
BucketsOf(file) == { i \in 1..Len(Groups) : SeqIncludes(Groups[i].v, file) }

\* the file has one of the extensions of the analyzer registered as `name`
HasExtensionOf(file, name) ==
    \E a \in 1..Len(Analyzers) :
        /\ Analyzers[a].name = name
        /\ \E e \in 1..Len(Analyzers[a].extensions) :
               EndsWith(file, Analyzers[a].extensions[e])

\* source and target of every edge of a payload stand in one bucket, and a
\* bucket holds only files with an extension of its analyzer
EdgesStayInBucket ==
    /\ \A payload \in Payloads :
           \A e \in EdgesOf(payload) : BucketsOf(e.from) \cap BucketsOf(e.to) # {}
    /\ \A i \in 1..Len(Groups) :
           \A k \in 1..Len(Groups[i].v) : HasExtensionOf(Groups[i].v[k], Groups[i].k)

CalculatorLanguages == {"js", "python", "cpp", "java", "csharp", "go"}

\* the file's content was read and the parser of its language accepted it
ReadAndParsed(file) == Contents[file].readable /\ Contents[file].strictParse

\* C22: for every admitted file of a language that has a complexity
\* calculator (js/ts, python, c/c++, java, csharp, go) whose content is read
\* and parsed, the complexity in the payload is at least 1; complexity 0
\* occurs only for files that could not be read or parsed.
ComplexityAtLeastOneWhenParsed ==
    \A payload \in Payloads :
        \A i \in 1..Len(payload.files) :
            LET file == payload.files[i].k
            IN  (GetAnalyzer(file).name \in CalculatorLanguages /\ ReadAndParsed(file))
                    => payload.files[i].v.complexity >= 1

\* a payload holds a Go or C/C++ file that was read and parsed
PayloadWithParsedGoOrCppFile ==
    \E payload \in Payloads :
        \E i \in 1..Len(payload.files) :
            /\ GetAnalyzer(payload.files[i].k).name \in {"go", "cpp"}
            /\ ReadAndParsed(payload.files[i].k)

(***************************************************************************)
(* Two runs in one server process. analyzeAll of the Go analyzer builds    *)
(* the module-level packageCache without yielding and then awaits          *)
(* fs.promises.readFile once for each file; whatever else the process has  *)
(* to do runs while a call waits, the analyzeAll of another run included.  *)
(***************************************************************************)

\* the variables of the single run followed in detail
runVars ==
    << pc, frames, stream, isClosed, workspace, rmAttempts, rmFailed, cloneProc, gitLines,
       lastProgress, lastPhase, repo, files, langIdx, allDependencies, fileIdx,
       fileData, error, steps, rejected, cancelledAt, readAfterCancel, calls >>

\* the files of a repository that analyzeGitRepo hands to the Go analyzer
GoFilesOf(r) == MapGet(GroupFiles(FilterFiles(TrackedOf(r)), <<>>), "go", <<>>)

\* the repositories of the concurrent runs: those made of Go files
GoRepos ==
    { r \in UNION { { Repo(sel, pick) : pick \in Picks(sel) } : sel \in Selections(MaxSize) } :
        r.sel # {} /\ Len(GoFilesOf(r)) = Cardinality(r.sel) }

\* goAnalyzer.analyzeAll(files, repoPath) is called for a run on r: the
\* package cache is cleared and filled, and the first readFile is awaited
GoAnalyzeAllCalled(r) ==
    /\ Len(goCalls) < MaxRuns
    /\ modules' = [modules EXCEPT !.packageCache =
                       BuildGoPackageCache(modules.packageCache, GoFilesOf(r), ContentsOf(r))]
    /\ goCalls' = Append(goCalls, [repo |-> r, next |-> 1, deps |-> <<>>])
    /\ UNCHANGED << served, runVars, pass, matrix, page, score >>

\* the readFile awaited by call k settles: the imports of the file are
\* resolved against packageCache as it is now (a rejection is caught), and
\* the next readFile is awaited, or the call returns after the last file
GoReadFileSettles(k) ==
    /\ k \in 1..Len(goCalls)
    /\ goCalls[k].next <= Len(GoFilesOf(goCalls[k].repo))
    /\ \E file \in { GoFilesOf(goCalls[k].repo)[goCalls[k].next] } :
         \E c \in { ContentsOf(goCalls[k].repo)[file] } :
           \E fileDeps \in { GoFileDeps(modules.packageCache, c, file,
                                        GoExtractImports(c), <<>>) } :
             goCalls' = [goCalls EXCEPT
                            ![k].next = @ + 1,
                            ![k].deps = IF c.readable /\ fileDeps # <<>>
                                        THEN MapSet(@, file, fileDeps) ELSE @]
    /\ UNCHANGED << modules, served, runVars, pass, matrix, page, score >>

NextConcurrent ==
    \/ \E r \in GoRepos : GoAnalyzeAllCalled(r)
    \/ \E k \in 1..MaxRuns : GoReadFileSettles(k)

SpecConcurrent == Init /\ [][NextConcurrent]_vars

\* call k is in its resolution pass
Resolving(k) == goCalls[k].next <= Len(GoFilesOf(goCalls[k].repo))

\* the targets named by the dependency map of a call
TargetsOf(deps) ==
    UNION { { deps[i].v[j].k : j \in 1..Len(deps[i].v) } : i \in 1..Len(deps) }

\* C23: when two runs execute concurrently in the same server process, the
\* language index a run reads during its resolution pass holds exactly the
\* files of that run from the start of the pass to its end, and so no edge
\* of a run names a file outside the run's own file list.
IndexIsOwnDuringResolution ==
    \A k \in 1..Len(goCalls) :
        /\ Resolving(k) =>
               modules.packageCache =
                   BuildGoPackageCache(<<>>, GoFilesOf(goCalls[k].repo),
                                       ContentsOf(goCalls[k].repo))
        /\ TargetsOf(goCalls[k].deps) \subseteq Range(GoFilesOf(goCalls[k].repo))

\* two calls on different repositories are in their resolution passes, and
\* a file has been resolved since the second call began
TwoCallsResolving ==
    /\ Len(goCalls) = 2
    /\ goCalls[1].repo # goCalls[2].repo
    /\ Resolving(1) /\ Resolving(2)
    /\ goCalls[1].next + goCalls[2].next > 2

(***************************************************************************)
(* One analyzeAll call of the Go, C# or Python analyzer, one file at a     *)
(* time: the loop of build*Cache over the files, then the loop of          *)
(* analyzeAll over the files                                               *)
(***************************************************************************)

PassLanguages == {"go", "csharp", "python"}

\* the files of a repository that are handed to the analyzer `name`
GroupFilesOf(r, name) == MapGet(GroupFiles(FilterFiles(TrackedOf(r)), <<>>), name, <<>>)

PassRepos ==
    UNION { { Repo(sel, pick) : pick \in Picks(sel) } : sel \in Selections(MaxSize) }

\* the body of the loop of build*Cache for one file
IndexOne(name, cache, file, contents) ==
    CASE name = "go" -> GoCacheFrom(<< file >>, contents, 1, cache)
      [] name = "csharp" -> CSharpCacheFrom(<< file >>, contents, 1, cache)
      [] name = "python" -> PythonCacheFrom(<< file >>, contents, 1, cache)

\* the body of the loop of analyzeAll for one file
ResolveOne(name, cache, file, contents, deps) ==
    CASE name = "go" -> GoAnalyzeFrom(<< file >>, contents, cache, 1, deps)
      [] name = "csharp" -> CSharpAnalyzeFrom(<< file >>, contents, cache, 1, deps)
      [] name = "python" -> PythonAnalyzeFrom(<< file >>, contents, cache, 1, deps)

\* the whole call, as the pipeline makes it
WholeCall(name, groupFiles, contents) ==
    CASE name = "go" -> GoAnalyzeAll(<<>>, groupFiles, contents)
      [] name = "csharp" -> CSharpAnalyzeAll(<<>>, groupFiles, contents)
      [] name = "python" -> PythonAnalyzeAll(<<>>, groupFiles, contents)

\* the loop of build*Cache has run to its end
IndexPassUnfinished(p) == p.indexed < Len(p.files)

\* a loop of analyzeAll that does not wait for build*Cache
IndexPassAtAnyPoint(p) == p.indexed <= Len(p.files)

\* build*Cache is a synchronous call and the statement before the loop of
\* analyzeAll: the loop is reached when build*Cache has returned
IndexPassFinished(p) == p.indexed = Len(p.files)

\* analyzeAll(files, repoPath) is called: build*Cache clears the Map
PassCalled(name, r) ==
    /\ pass.name = ""
    /\ GroupFilesOf(r, name) # <<>>
    /\ pass' = [name |-> name, files |-> GroupFilesOf(r, name), contents |-> ContentsOf(r),
                indexed |-> 0, resolved |-> 0, cache |-> MapClear(<<>>), deps |-> <<>>]
    /\ UNCHANGED << modules, served, runVars, goCalls, matrix, page, score >>

\* build*Cache takes the next file of its loop
PassIndexes ==
    /\ pass.name # ""
    /\ IndexPassUnfinished(pass)
    /\ pass' = [pass EXCEPT
                   !.indexed = @ + 1,
                   !.cache = IndexOne(pass.name, @, pass.files[pass.indexed + 1],
                                      pass.contents)]
    /\ UNCHANGED << modules, served, runVars, goCalls, matrix, page, score >>

\* analyzeAll takes the next file of its loop
PassResolves ==
    /\ pass.name # ""
    /\ IndexPassFinished(pass)
    /\ pass.resolved < Len(pass.files)
    /\ pass' = [pass EXCEPT
                   !.resolved = @ + 1,
                   !.deps = ResolveOne(pass.name, pass.cache, pass.files[pass.resolved + 1],
                                       pass.contents, @)]
    /\ UNCHANGED << modules, served, runVars, goCalls, matrix, page, score >>

NextPass ==
    \/ \E name \in PassLanguages : \E r \in PassRepos : PassCalled(name, r)
    \/ PassIndexes
    \/ PassResolves

SpecPass == Init /\ [][NextPass]_vars

\* C24: within one analyzeAll call of the Go, C# and Python analyzers, no
\* import of a file is resolved before every file of the call's list has
\* been indexed or skipped as unreadable: when the first resolution step
\* starts the index is the finished index of the whole list, and the call
\* ends with the dependency map the whole call computes.
IndexPassBeforeResolution ==
    /\ pass.resolved > 0 =>
           /\ pass.indexed = Len(pass.files)
           /\ pass.cache = WholeCall(pass.name, pass.files, pass.contents).cache
    /\ (pass.name # "" /\ pass.resolved = Len(pass.files) /\ pass.indexed = Len(pass.files)) =>
           pass.deps = WholeCall(pass.name, pass.files, pass.contents).deps

\* a call on two files has resolved a file into an edge
PassOfTwoFilesResolved ==
    /\ Len(pass.files) = 2
    /\ pass.resolved > 0
    /\ pass.deps # <<>>

(***************************************************************************)
(* The clone-progress messages and the lines git prints                    *)
(***************************************************************************)

\* the clone-progress messages sent so far
CloneProgressFrames ==
    SelectSeq(frames, LAMBDA f : f.type = "progress"
                                 /\ f.message.text = "Cloning repository..."
                                 /\ f.message.s # <<>>)

\* the step sends a message
MessageEmitted == Len(frames') = Len(frames) + 1

\* the closure variables of the handler hold what the last message sent for
\* a line carried, and nothing before the first
LastEmittedIsRemembered ==
    IF CloneProgressFrames = <<>> THEN lastPhase = "" /\ lastProgress = 0
    ELSE LET last == CloneProgressFrames[Len(CloneProgressFrames)]
         IN  /\ lastProgress = last.message.n
             /\ (lastPhase = "Resolving deltas") <=> (last.message.s = <<"P", "r", "o", "c", "e", "s", "s", "i", "n", "g", " ", "f", "i", "l", "e", "s">>)

PythonComplexityCountsKeywordsOfSource ==
    \A payload \in Payloads :
        \A i \in 1..Len(payload.files) :
            LET file == payload.files[i].k
            IN  (EndsWith(file, <<".", "p", "y">>) /\ Contents[file].readable)
                    => payload.files[i].v.complexity = 1 + Contents[file].decisions

\* a payload holds a .py file that was read and has decision keywords
PayloadWithPythonDecisions ==
    \E payload \in Payloads :
        \E i \in 1..Len(payload.files) :
            /\ EndsWith(payload.files[i].k, <<".", "p", "y">>)
            /\ Contents[payload.files[i].k].readable
            /\ Contents[payload.files[i].k].decisions > 0

\* the segments of one path end with all the segments of the other
SegmentsAgree(packagePath, importPath) ==
    LET d == SplitOn(packagePath, "/")
        p == SplitOn(importPath, "/")
    IN  EndsWith(d, p) \/ EndsWith(p, d)

\* the import of `file` that can stand for an edge to `target`: a relative
\* one naming the target's directory, or one that agrees with it on whole
\* segments
GoImportNames(importPath, file, target) ==
    IF StartsWith(importPath, DOT)
    THEN DirName(target) = PathJoin(DirName(file), importPath)
    ELSE SegmentsAgree(DirName(target), importPath)

\* C27: for a non-relative Go import path P, the Go analyzer produces an
\* edge to file f only if f's package directory D and P agree on whole path
\* segments (the segments of D end with all segments of P, or the segments
\* of P end with all segments of D); an import of a third-party path that
\* matches no package directory of the repository in this way produces no
\* edge.
GoEdgesAgreeOnSegments ==
    \A payload \in Payloads :
        \A i \in 1..Len(payload.files) :
            LET file == payload.files[i].k
                deps == payload.files[i].v.dependencies
                imports == GoExtractImports(Contents[file])
            IN  EndsWith(file, <<".", "g", "o">>) =>
                    \A j \in 1..Len(deps) :
                        \E n \in 1..Len(imports) :
                            GoImportNames(imports[n], file, deps[j].fileName)

\* a payload holds a Go file with a non-relative import outside the
\* standard library, next to another Go file
PayloadWithGoImport ==
    \E payload \in Payloads :
        \E i, k \in 1..Len(payload.files) :
            /\ i # k
            /\ EndsWith(payload.files[i].k, <<".", "g", "o">>)
            /\ EndsWith(payload.files[k].k, <<".", "g", "o">>)
            /\ Contents[payload.files[i].k].readable
            /\ \E n \in 1..Len(GoExtractImports(Contents[payload.files[i].k])) :
                   ~StartsWith(GoExtractImports(Contents[payload.files[i].k])[n], DOT)

(***************************************************************************)
(* components/DSM.tsx: the matrix and its collapsed folders                *)
(***************************************************************************)

\* the files the payloads of the matrix are made of, in the order of
\* fileList
MatrixPaths ==
    << <<"a", ".", "t", "s">>, <<"d", "/", "b", ".", "t", "s">>, <<"d", "/", "e", "/", "c", ".", "t", "s">>, <<"d", "/", "e", "/", "f", "/", "g", ".", "t", "s">>, <<"d", "/", "e", "/", "h", ".", "t", "s">>, <<"k", "/", "m", ".", "p", "y">> >>

\* the file lists a payload can hold: the sublists of MatrixPaths
MatrixFileLists ==
    { SelectSeq(MatrixPaths, LAMBDA path : path \in chosen) : chosen \in SUBSET Range(MatrixPaths) }

\* const isExpanded = !item.isDirectory || !collapsed.has(item.path)
IsExpanded(item, collapsed) == ~item.isDirectory \/ item.path \notin collapsed

\* a matrix that shows every item
ShowEveryItem(item, collapsed) == TRUE

\* showInMatrix: item.isDirectory ? !isExpanded : true
ShowInMatrix(item, collapsed) ==
    IF item.isDirectory THEN ~IsExpanded(item, collapsed) ELSE TRUE

RECURSIVE ApplyCollapse(_, _, _, _, _, _)
\* the callback of serverDisplayItems.forEach from item i on; `skipping`
\* is skipDepth !== null
ApplyCollapse(serverDisplayItems, collapsed, i, skipping, skipDepth, items) ==
    IF i > Len(serverDisplayItems) THEN items
    ELSE LET item == serverDisplayItems[i] IN
         IF skipping /\ item.indent > skipDepth
         THEN ApplyCollapse(serverDisplayItems, collapsed, i + 1, skipping, skipDepth, items)
         ELSE ApplyCollapse(serverDisplayItems, collapsed, i + 1,
                            item.isDirectory /\ ~IsExpanded(item, collapsed),
                            item.indent,
                            Append(items, [item EXCEPT !.showInMatrix = ShowInMatrix(item, collapsed)]))

\* the displayItems of the component
DisplayItemsOf(m) == ApplyCollapse(m.data.displayItems, m.collapsed, 1, FALSE, 0, <<>>)

\* matrixItems: displayItems.filter(item => item.showInMatrix)
MatrixItemsOf(m) == SelectSeq(DisplayItemsOf(m), LAMBDA item : item.showInMatrix)

\* the paths of the folders of a payload
FolderPaths(data) ==
    { data.displayItems[i].path : i \in { j \in 1..Len(data.displayItems) :
                                            data.displayItems[j].isDirectory } }

\* <DSMMatrix data={...}/> is mounted with the payload of a file list:
\* useState(new Set())
MatrixMounted(fileList) ==
    /\ ~matrix.mounted
    /\ matrix' = [mounted |-> TRUE,
                  data |-> [NoData EXCEPT !.displayItems = BuildDisplayItems(fileList),
                                          !.fileList = fileList],
                  collapsed |-> {}]
    /\ UNCHANGED << modules, served, runVars, goCalls, pass, page, score >>

\* toggleCollapse(path), for the path of a folder
ToggleCollapse(path) ==
    /\ matrix.mounted
    /\ path \in FolderPaths(matrix.data)
    /\ matrix' = [matrix EXCEPT !.collapsed = IF path \in @ THEN @ \ {path} ELSE @ \cup {path}]
    /\ UNCHANGED << modules, served, runVars, goCalls, pass, page, score >>

NextMatrix ==
    \/ \E fileList \in MatrixFileLists : MatrixMounted(fileList)
    \/ \E path \in FolderPaths(matrix.data) : ToggleCollapse(path)

SpecMatrix == Init /\ [][NextMatrix]_vars

\* the item at `path` lies beneath the folder at `folder`
Beneath(path, folder) ==
    /\ Len(Parts(path)) > Len(Parts(folder))
    /\ IsPrefixSeq(Parts(folder), Parts(path))

\* the item has a collapsed folder above it
HasCollapsedAncestor(item, collapsed) ==
    \E folder \in collapsed : Beneath(item.path, folder)

\* C28: in the matrix view, for any set of collapsed paths reached by any
\* sequence of toggleCollapse calls, the items shown in the matrix are the
\* files with no collapsed ancestor and the collapsed directories with no
\* collapsed ancestor, they cover every index of fileList exactly once, and
\* every item beneath a collapsed directory is hidden.
ShownItemsCoverFileListOnce ==
    matrix.mounted =>
        LET shown == MatrixItemsOf(matrix)
            all == matrix.data.displayItems
        IN  /\ \A idx \in 0..(Len(matrix.data.fileList) - 1) :
                   Cardinality({ k \in 1..Len(shown) :
                                   idx \in Range(shown[k].fileIndices) }) = 1
            /\ \A i \in 1..Len(all) :
                   HasCollapsedAncestor(all[i], matrix.collapsed) =>
                       \A k \in 1..Len(DisplayItemsOf(matrix)) :
                           DisplayItemsOf(matrix)[k].path # all[i].path
            /\ { shown[k].path : k \in 1..Len(shown) } =
                   { all[i].path : i \in { j \in 1..Len(all) :
                         /\ ~HasCollapsedAncestor(all[j], matrix.collapsed)
                         /\ all[j].isDirectory => all[j].path \in matrix.collapsed } }

\* a folder and a folder beneath it are both collapsed, next to files that
\* are shown
NestedFoldersCollapsed ==
    /\ matrix.mounted
    /\ \E outer, inner \in matrix.collapsed : Beneath(inner, outer)
    /\ Len(MatrixItemsOf(matrix)) >= 3

(***************************************************************************)
(* analyze/page.tsx: the page, and the EventSources fetchDSMData has       *)
(* opened. A frame is told from another by the EventSource it arrived on   *)
(* and by its place in that stream.                                        *)
(***************************************************************************)

RepoUrls == {"repo-1", "repo-2"}

FrameTypes == {"progress", "complete", "error"}

\* fetchDSMData(url): the three setters, and a new EventSource
FetchDSMData(p, url) ==
    [p EXCEPT !.loading = TRUE,
              !.error = <<>>,
              !.progressMessage = <<>>,
              !.sources = Append(@, [url |-> url, open |-> TRUE, received |-> 0])]

\* the repo parameter of the page changes: the effect on [repoUrl] runs
\* fetchDSMData(repoUrl); the effect returns no cleanup
RepoUrlChanges(url) ==
    /\ url # page.repoUrl
    /\ Len(page.sources) < MaxRuns
    /\ page' = FetchDSMData([page EXCEPT !.repoUrl = url], url)
    /\ UNCHANGED << modules, served, runVars, goCalls, pass, matrix, score >>

\* the Retry button, rendered when error is set: repoUrl && fetchDSMData(repoUrl)
RetryPressed ==
    /\ page.error # <<>>
    /\ page.repoUrl # ""
    /\ Len(page.sources) < MaxRuns
    /\ page' = FetchDSMData(page, page.repoUrl)
    /\ UNCHANGED << modules, served, runVars, goCalls, pass, matrix, score >>

\* eventSource.onmessage of the k-th EventSource for a frame of `type`
OnMessage(k, type) ==
    /\ k \in 1..Len(page.sources)
    /\ page.sources[k].open
    /\ page.sources[k].received < MaxSize
    /\ LET from == << k, page.sources[k].received + 1 >> IN
       page' = CASE type = "progress" ->
                        [page EXCEPT !.progressMessage = from,
                                     !.sources[k].received = @ + 1]
                 [] type = "complete" ->
                        [page EXCEPT !.dsmData = from,
                                     !.loading = FALSE,
                                     !.sources[k].received = @ + 1,
                                     !.sources[k].open = FALSE]
                 [] type = "error" ->
                        [page EXCEPT !.error = from,
                                     !.loading = FALSE,
                                     !.sources[k].received = @ + 1,
                                     !.sources[k].open = FALSE]
    /\ UNCHANGED << modules, served, runVars, goCalls, pass, matrix, score >>

\* eventSource.onerror of the k-th EventSource
OnError(k) ==
    /\ k \in 1..Len(page.sources)
    /\ page.sources[k].open
    /\ page' = [page EXCEPT !.error = << k, 0 >>,
                            !.loading = FALSE,
                            !.sources[k].open = FALSE]
    /\ UNCHANGED << modules, served, runVars, goCalls, pass, matrix, score >>

NextPage ==
    \/ \E url \in RepoUrls : RepoUrlChanges(url)
    \/ RetryPressed
    \/ \E k \in 1..MaxRuns : \E type \in FrameTypes : OnMessage(k, type)
    \/ \E k \in 1..MaxRuns : OnError(k)

SpecPage == Init /\ [][NextPage]_vars

\* what the page displays of an analysis
Displayed(p) == << p.dsmData, p.error, p.progressMessage >>

\* C29: on the analyze page, when a new analysis is started (the repo URL
\* changes or Retry is pressed) while the EventSource of an earlier analysis
\* is still open, no frame of the earlier stream changes the displayed
\* dsmData, error or progress message afterwards: the result shown belongs
\* to the most recently started analysis.
EarlierStreamChangesNothing ==
    [][\A k \in 1..(Len(page.sources) - 1) : \A type \in FrameTypes :
         OnMessage(k, type) => Displayed(page') = Displayed(page)]_vars

\* a new analysis has been started while the EventSource of an earlier one
\* is open, and a frame has arrived since
TwoSourcesOpen ==
    /\ Len(page.sources) = 2
    /\ page.sources[1].open
    /\ page.sources[1].received + page.sources[2].received > 0

(***************************************************************************)
(* macaroniScore.ts: countCircularDependencies                             *)
(***************************************************************************)

ScoreFiles == << <<"A">>, <<"B">>, <<"C">> >>

\* what a file may hold about a target: no entry (-1), or an entry of
\* weight 0 or 2
ScoreWeights == {-1, 0, 2}

\* the DSM data of a choice of weights: each dependency list names each
\* target at most once (-1: not at all)
ScoreData(weight) ==
    [i \in 1..Len(ScoreFiles) |->
        [k |-> ScoreFiles[i],
         v |-> [dependencies |->
                   LET named == SelectSeq([j \in 1..Len(ScoreFiles) |-> j],
                                          LAMBDA j : weight[<< i, j >>] >= 0)
                   IN  [n \in 1..Len(named) |->
                           [fileName |-> ScoreFiles[named[n]],
                            dependencies |-> weight[<< i, named[n] >>]]]]]]

\* the weights of the data the calls are made on: at most two dataFiles name
\* anything
ScoreInputs ==
    { weight \in [(1..Len(ScoreFiles)) \X (1..Len(ScoreFiles)) -> ScoreWeights] :
        Cardinality({ i \in 1..Len(ScoreFiles) :
                        \E j \in 1..Len(ScoreFiles) : weight[<< i, j >>] >= 0 }) <= 2 }

\* depsB.some(d => d.fileName === fileA && d.dependencies > 0), with
\* depsB = data.files[dep.fileName]?.dependencies || []
DependsBack(dataFiles, fileName, fileA) ==
    LET depsB == MapGet(dataFiles, fileName, [dependencies |-> <<>>]).dependencies
    IN  \E n \in 1..Len(depsB) : depsB[n].fileName = fileA /\ depsB[n].dependencies > 0

\* the circularCount the two loops reach
CircularCount(dataFiles) ==
    Len(Concat([i \in 1..Len(dataFiles) |->
            SelectSeq(dataFiles[i].v.dependencies,
                      LAMBDA dep : /\ dep.dependencies > 0
                                   /\ DependsBack(dataFiles, dep.fileName, dataFiles[i].k))]))

\* countCircularDependencies(data): Math.floor(circularCount / 2)
CountCircularDependencies(dataFiles) == CircularCount(dataFiles) \div 2

\* a caller has the DSM data of a choice of weights
ScoreDataGiven(weight) ==
    /\ ~score.called
    /\ score.data = <<>>
    /\ score' = [score EXCEPT !.data = ScoreData(weight)]
    /\ UNCHANGED << modules, served, runVars, goCalls, pass, matrix, page >>

\* countCircularDependencies(data) returns
CountCalled ==
    /\ ~score.called
    /\ score.data # <<>>
    /\ score' = [score EXCEPT !.called = TRUE,
                              !.result = CountCircularDependencies(score.data)]
    /\ UNCHANGED << modules, served, runVars, goCalls, pass, matrix, page >>

NextScore ==
    \/ \E weight \in ScoreInputs : ScoreDataGiven(weight)
    \/ CountCalled

SpecScore == Init /\ [][NextScore]_vars

\* A has an edge of positive weight to B
PositiveEdge(dataFiles, a, b) ==
    \E n \in 1..Len(MapGet(dataFiles, a, [dependencies |-> <<>>]).dependencies) :
        LET dep == MapGet(dataFiles, a, [dependencies |-> <<>>]).dependencies[n]
        IN  dep.fileName = b /\ dep.dependencies > 0

\* the unordered pairs of distinct dataFiles with positive edges both ways
MutualPairs(dataFiles) ==
    { pair \in SUBSET Range(MapKeys(dataFiles)) :
        /\ Cardinality(pair) = 2
        /\ \A a, b \in pair : a # b => PositiveEdge(dataFiles, a, b) }

\* C30: for any DSM data in which each file's dependency list names each
\* target at most once (self-edges allowed), countCircularDependencies
\* returns exactly the number of unordered pairs of distinct dataFiles {A, B}
\* such that A has a positive-weight edge to B and B has a positive-weight
\* edge to A.
CountIsNumberOfMutualPairs ==
    score.called => score.result = Cardinality(MutualPairs(score.data))

\* the count has been taken of data with a mutual pair and a self-edge
CountedWithPairAndSelfEdge ==
    /\ score.called
    /\ MutualPairs(score.data) # {}
    /\ \E i \in 1..Len(score.data) :
           PositiveEdge(score.data, score.data[i].k, score.data[i].k)

====
